---- MODULE Spec2Model ----
(***************************************************************************)
(* Connection-resilience layer of the messaging front-end.                 *)
(*                                                                         *)
(* The socket wrapper (class SocketService, the variant with the backend   *)
(* wake-up probe) is modelled as one record, svc, holding the fields of    *)
(* the object, the timers it has armed, the suspended activations of its   *)
(* async methods and, in the field out, what the handler that is running   *)
(* has done to the outside so far (events sent, notifications delivered,   *)
(* transports opened and closed, retries scheduled).  Every handler of the *)
(* class is an operator from a record to a record, so that a handler that  *)
(* calls another handler is the composition of the two operators.  The     *)
(* actions are the entry points of the event loop: a caller's call, a      *)
(* timer that fires, a callback of the transport, the completion of a      *)
(* fetch.  hist is what an observer of those effects has recorded; each    *)
(* specification starts it with the histories its properties read.         *)
(***************************************************************************)
EXTENDS Integers, Sequences, FiniteSets, TLC

VARIABLES svc, hist, now, api, app

vars == <<svc, hist, now, api, app>>

----------------------------------------------------------------------------
(* Program constants *)

RECONNECT_DELAY == 1000
MAX_RECONNECT_ATTEMPTS == 10
MAX_DELAY == 30000
MAX_WAKE_UP_ATTEMPTS == 3
MAX_AGE == 300000
HEARTBEAT_TIMEOUT == 60000

\* null
Null == -1

(* Bounds of the model *)

\* the capacity of the Pending Event Queue, scaled down from 100
QueueCapacity == 2
\* events a caller emits in one behaviour: one more than the queue holds
MaxEvents == QueueCapacity + 1
\* calls of emit() in a behaviour with a clock
MaxAged == 2
\* callbacks a caller registers at a time
MaxListeners == 2
\* events a subscriber emits in reaction to a notification, in one behaviour
MaxReactions == 1
\* reconnect timers whose handle the object does not hold
MaxStray == 1
\* connect() and reconnect() activations suspended at a time
MaxSuspended == 2
\* the clock advances MaxTicks times, by the maximal age of a queued event
MaxTicks == 2
TickMs == MAX_AGE
\* ... or MaxBeats times, by the period of the heartbeat interval
MaxBeats == 3
BeatMs == HEARTBEAT_TIMEOUT \div 2

Callbacks == {"cbA", "cbB"}

\* reasons the transport gives for a disconnect it reports by itself
ServerReasons ==
  {"transport close", "transport error", "ping timeout", "server shutting down",
   "io server disconnect", "parse error"}

Min(a, b) == IF a <= b THEN a ELSE b

RECURSIVE Pow(_, _)
Pow(b, e) == IF e = 0 THEN 1 ELSE b * Pow(b, e - 1)

Range(q) == {q[i] : i \in 1..Len(q)}

RemoveFirst(q, x) ==
  IF x \in Range(q)
  THEN LET i == CHOOSE j \in 1..Len(q) : q[j] = x /\ \A k \in 1..(j - 1) : q[k] # x
       IN  SubSeq(q, 1, i - 1) \o SubSeq(q, i + 1, Len(q))
  ELSE q

Occurrences(q, x) == Cardinality({i \in 1..Len(q) : q[i] = x})

----------------------------------------------------------------------------
(* The page (component App of App.jsx) *)
(*                                                                         *)
(* app holds the state of the component and, in loading, the activations   *)
(* of loadConversations() that wait for their GET: each is the value of    *)
(* selected that the closure it was called on had captured.                *)

\* activations of loadConversations() waiting at a time
MaxLoads == 2

Conversations == {"c1", "c2"}

\* the lists the backend answers with, by wa_id
Loaded == {<<>>, <<"c1">>, <<"c2">>, <<"c1", "c2">>, <<"c2", "c1">>}

\* loadConversations(), up to the await of the GET
LoadConversations(a) ==
  [a EXCEPT !.error = FALSE, !.loading = Append(@, a.selected)]

\* the effect with the dependency loadConversations, after a render
Rendered(before, after) ==
  IF after.selected # before.selected THEN LoadConversations(after) ELSE after

\* after its first render and the effect of that render
InitApp ==
  LoadConversations(
    [conversations |-> <<>>, selected |-> "none", isLoading |-> TRUE,
     showMobileChat |-> FALSE, error |-> FALSE, loading |-> <<>>])

Without(q, i) == SubSeq(q, 1, i - 1) \o SubSeq(q, i + 1, Len(q))

\* loadConversations() from the answer of the GET on
LoadConversationsResolves(a, i, conversationsData) ==
  LET selected == a.loading[i]
      a1 == [a EXCEPT !.loading = Without(@, i),
                      !.conversations = conversationsData]
      a2 == IF selected = "none" /\ Len(conversationsData) > 0
            THEN [a1 EXCEPT !.selected = conversationsData[1]]
            ELSE a1
      a3 == IF selected # "none" /\ selected \notin Range(conversationsData)
            THEN [a2 EXCEPT !.selected = "none", !.showMobileChat = FALSE]
            ELSE a2
  IN  Rendered(a, [a3 EXCEPT !.isLoading = FALSE])

LoadConversationsRejects(a, i) ==
  Rendered(a, [a EXCEPT !.loading = Without(@, i), !.error = TRUE,
                        !.isLoading = FALSE])

HandleSelectConversation(a, conv) ==
  Rendered(a, [a EXCEPT !.selected = conv, !.showMobileChat = TRUE])

HandleBackToList(a) ==
  Rendered(a, [a EXCEPT !.showMobileChat = FALSE, !.selected = "none"])

HandleRefresh(a) == LoadConversations(a)

HandleRetry(a) == LoadConversations([a EXCEPT !.error = FALSE])

----------------------------------------------------------------------------
(* The object after construction, and the page's timers at module load *)

InitService ==
  [ socket            |-> "none",          \* this.socket: none, or the state of the transport it refers to
    connected         |-> FALSE,
    connectionState   |-> "disconnected",
    reconnectAttempts |-> 0,
    wakeUpAttempts    |-> 0,
    isWakingUp        |-> FALSE,
    eventQueue        |-> <<>>,
    lastSuccessfulPing |-> Null,           \* Date.now() of the last pong (or connect), or null
    eventListeners    |-> <<>>,            \* the Listener Registry, for one event name
    attached          |-> <<>>,            \* the callbacks attached to the transport of this.socket
    reconnectTimeout  |-> FALSE,           \* the timer of this.reconnectTimeout is pending
    connectionTimeout |-> FALSE,           \* the timer of this.connectionTimeout is pending
    healthMonitoring  |-> FALSE,           \* pingInterval and heartbeatInterval are running
    strayTimers       |-> 0,               \* pending timers calling connect() that no field refers to
    fetching          |-> 0,               \* activations of connect() awaiting the health fetch
    sleeping          |-> 0,               \* activations of connect() in the 2 s pause of the probe
    manualWaits       |-> 0,               \* activations of reconnect() in their 1 s pause
    initPending       |-> TRUE,            \* the auto-initialisation timer of the module
    initWaiting       |-> FALSE,           \* the auto-initialisation awaits its connect()
    monitorOn         |-> FALSE,           \* the interval of startConnectionMonitoring
    reserved          |-> {},              \* the events a caller emits under a name that the
                                           \* transport refuses: its emit() throws
    reactor           |-> 0,               \* times a connection_status subscriber will still emit
                                           \* an event when it is told 'connected'
    ping              |-> [variant |-> 0, timer |-> FALSE, ack |-> FALSE, responded |-> FALSE],
                                           \* the last call of ping(callback): the variant of the
                                           \* class that served it (0: no call yet), its timeout timer
                                           \* pending, its acknowledgment still possible, its flag
    callbackDoes      |-> [cb \in Callbacks |-> "returns"],  \* what each subscriber's callback does
    out               |-> <<>> ]           \* the effects of the handler that is running

\* an effect: its kind, and a number or a name where the kind has one
Effect(kind, n, t) == [e |-> kind, n |-> n, t |-> t]

Out(s, x) == [s EXCEPT !.out = Append(@, x)]

----------------------------------------------------------------------------
(* Timers *)

ClearConnectionTimeout(s) == [s EXCEPT !.connectionTimeout = FALSE]

StopHealthMonitoring(s) == [s EXCEPT !.healthMonitoring = FALSE]

StartHealthMonitoring(s) == [StopHealthMonitoring(s) EXCEPT !.healthMonitoring = TRUE]

----------------------------------------------------------------------------
(* Listeners *)

On(s, cb) ==
  Out([s EXCEPT !.eventListeners = Append(@, cb),
                !.attached = IF s.socket # "none" THEN Append(@, cb) ELSE @],
      Effect("on", 0, cb))

\* an off that leaves the transport as it is
OffRegistryOnly(s, cb) ==
  Out([s EXCEPT !.eventListeners = RemoveFirst(@, cb)], Effect("off", 0, cb))

Off(s, cb) ==
  Out([s EXCEPT !.eventListeners = RemoveFirst(@, cb),
                !.attached = IF s.socket # "none" THEN RemoveFirst(@, cb) ELSE @],
      Effect("off", 0, cb))

\* what a registered callback does when it is invoked
Behaviours == {"returns", "throws", "removesSelf", "removesOther"}

Other(cb) == CHOOSE c \in Callbacks : c # cb

\* callback(data) inside the try of emitToListeners
Invoke(s, cb) ==
  LET s1 == Out(s, Effect("invoke", 0, cb))
  IN  CASE s.callbackDoes[cb] = "returns"      -> s1
        [] s.callbackDoes[cb] = "throws"       -> Out(s1, Effect("caught", 0, cb))
        [] s.callbackDoes[cb] = "removesSelf"  -> Off(s1, cb)
        [] s.callbackDoes[cb] = "removesOther" -> Off(s1, Other(cb))

\* a dispatch that a throwing callback ends
RECURSIVE ForEachUntilThrow(_, _, _)
ForEachUntilThrow(s, k, len) ==
  IF k > len
  THEN s
  ELSE IF k <= Len(s.eventListeners)
       THEN IF s.callbackDoes[s.eventListeners[k]] = "throws"
            THEN Invoke(s, s.eventListeners[k])
            ELSE ForEachUntilThrow(Invoke(s, s.eventListeners[k]), k + 1, len)
       ELSE ForEachUntilThrow(s, k + 1, len)

\* Array.prototype.forEach over the list of the registry: the indices from
\* the first to the length the list had at the start, each looked up in the
\* list as it is when its turn comes
RECURSIVE ForEach(_, _, _)
ForEach(s, k, len) ==
  IF k > len
  THEN s
  ELSE IF k <= Len(s.eventListeners)
       THEN ForEach(Invoke(s, s.eventListeners[k]), k + 1, len)
       ELSE ForEach(s, k + 1, len)

\* emitToListeners('connection_status', {status: st, ...})
EmitToListeners(s, st) ==
  ForEach(Out(s, Effect("status", 0, st)), 1, Len(s.eventListeners))

----------------------------------------------------------------------------

----------------------------------------------------------------------------
(* Reconnection *)

ShouldReconnect(reason) ==
  reason \in {"transport close", "transport error", "ping timeout",
              "server shutting down", "io server disconnect", "io client disconnect"}
  \/ reason = "transport error"
  \/ reason = ""

\* Math.min(reconnectDelay * Math.pow(1.5, n - 1), 30000), in units of
\* 1/2^(MAX_RECONNECT_ATTEMPTS - 1) ms so that the powers of 1.5 stay exact
DelayScale == Pow(2, MAX_RECONNECT_ATTEMPTS - 1)

BackoffDelay(n) ==
  Min(RECONNECT_DELAY * Pow(3, n - 1) * Pow(2, MAX_RECONNECT_ATTEMPTS - n),
      MAX_DELAY * DelayScale)

\* a handleConnectionError that counts a failure twice
HandleConnectionErrorCountingTwice(s) ==
  LET s1 == ClearConnectionTimeout(
              Out(Out([s EXCEPT !.connected = FALSE, !.connectionState = "error"],
                      Effect("failure", 0, "")),
                  Effect("stat", 0, "totalErrors")))
  IN  IF s1.reconnectAttempts < MAX_RECONNECT_ATTEMPTS
      THEN Out(Out([s1 EXCEPT !.reconnectAttempts = s1.reconnectAttempts + 2,
                          !.strayTimers = IF s1.reconnectTimeout THEN @ + 1 ELSE @,
                          !.reconnectTimeout = TRUE],
               Effect("stat", 0, "totalReconnects")),
               Effect("retry", BackoffDelay(s1.reconnectAttempts + 1), ""))
      ELSE EmitToListeners(s1, "failed")

HandleConnectionError(s) ==
  LET s1 == ClearConnectionTimeout(
              Out(Out([s EXCEPT !.connected = FALSE, !.connectionState = "error"],
                      Effect("failure", 0, "")),
                  Effect("stat", 0, "totalErrors")))
  IN  IF s1.reconnectAttempts < MAX_RECONNECT_ATTEMPTS
      THEN Out(Out([s1 EXCEPT !.reconnectAttempts = s1.reconnectAttempts + 1,
                          \* the handle of a timer still pending is overwritten
                          !.strayTimers = IF s1.reconnectTimeout THEN @ + 1 ELSE @,
                          !.reconnectTimeout = TRUE],
               Effect("stat", 0, "totalReconnects")),
               Effect("retry", BackoffDelay(s1.reconnectAttempts + 1), ""))
      ELSE EmitToListeners(s1, "failed")

\* handleDisconnect scheduling nothing: what the recovery property must reject
HandleDisconnectWithoutTimer(s, reason) == s

HandleDisconnect(s, reason) ==
  IF ShouldReconnect(reason) /\ s.reconnectAttempts < MAX_RECONNECT_ATTEMPTS
  THEN [s EXCEPT !.strayTimers = @ + 1]
  ELSE s

\* the handler of the transport's "disconnect" event
\* a "disconnect" handler that always announces a reconnect
OnDisconnectAnnouncingReconnect(s, reason) ==
  EmitToListeners(
    Out(HandleDisconnect(
          StopHealthMonitoring(
            Out([s EXCEPT !.connected = FALSE, !.connectionState = "disconnected"],
                Effect("stat", 0, "totalDisconnections"))),
          reason),
        Effect("willReconnect", 0, "true")),
    "disconnected")

OnDisconnect(s, reason) ==
  EmitToListeners(
    Out(HandleDisconnect(
          StopHealthMonitoring(
            Out([s EXCEPT !.connected = FALSE, !.connectionState = "disconnected"],
                Effect("stat", 0, "totalDisconnections"))),
          reason),
        \* the willReconnect of the notification
        Effect("willReconnect", 0, IF ShouldReconnect(reason) THEN "true" ELSE "false")),
    "disconnected")

\* the handler of the transport's "error" event
OnError(s) == Out(s, Effect("stat", 0, "totalErrors"))

----------------------------------------------------------------------------
(* Events *)

\* queueEvent without its eviction: what the capacity property must reject
QueueEventWithoutShift(s, id) ==
  Out([s EXCEPT !.eventQueue = Append(@, [id |-> id, timestamp |-> now])],
      Effect("queue", id, ""))

QueueEvent(s, id) ==
  LET full == Len(s.eventQueue) >= QueueCapacity
      s1 == IF full
            THEN Out([s EXCEPT !.eventQueue = Tail(@)], Effect("evict", Head(s.eventQueue).id, ""))
            ELSE s
  IN  Out([s1 EXCEPT !.eventQueue = Append(@, [id |-> id, timestamp |-> now])],
          Effect("queue", id, ""))

\* an emit that answers true also when it has queued the event
EmitAlwaysTrue(s, id) ==
  IF s.socket = "connected"
  THEN IF id \in s.reserved
       THEN Out(s, Effect("return", id, "false"))
       ELSE Out(Out(s, Effect("send", id, "")), Effect("return", id, "true"))
  ELSE Out(QueueEvent(s, id), Effect("return", id, "true"))

Emit(s, id) ==
  IF s.socket = "connected"
  THEN IF id \in s.reserved
       THEN Out(s, Effect("return", id, "false"))
       ELSE Out(Out(s, Effect("send", id, "")), Effect("return", id, "true"))
  ELSE Out(QueueEvent(s, id), Effect("return", id, "false"))

RECURSIVE EmitEach(_, _)
EmitEach(s, q) == IF q = <<>> THEN s ELSE EmitEach(Emit(s, Head(q).id), Tail(q))

\* the age filter letting every entry through: what the staleness property must reject
IsValidWhateverTheAge(queuedEvent) == queuedEvent.timestamp <= now

IsValid(queuedEvent) == now - queuedEvent.timestamp <= MAX_AGE

RECURSIVE Discard(_, _)
Discard(s, q) ==
  IF q = <<>> THEN s
  ELSE Discard(IF IsValid(Head(q)) THEN s ELSE Out(s, Effect("stale", Head(q).id, "")), Tail(q))

EmitQueuedEvents(s) ==
  IF s.eventQueue = <<>> THEN s
  ELSE LET validEvents == SelectSeq(s.eventQueue, IsValid)
       IN  EmitEach(Discard([s EXCEPT !.eventQueue = <<>>], s.eventQueue), validEvents)

----------------------------------------------------------------------------
(* Transport *)

\* socket.disconnect() of the transport library on the transport of
\* this.socket: a connected transport reports "io client disconnect" to its
\* handler before the call returns, one that is still opening is destroyed
\* without any event
\* a teardown that forgets to close the transport: what the single-transport
\* property must reject
SocketDisconnectForgotten(s) == s

SocketDisconnect(s) ==
  LET s1 == Out([s EXCEPT !.socket = "closed"], Effect("close", 0, s.socket))
  IN  IF s.socket = "connected" THEN OnDisconnect(s1, "io client disconnect") ELSE s1

\* this.socket = null: the object lets go of the transport, whatever its state
DropSocket(s) ==
  Out([s EXCEPT !.socket = "none", !.attached = <<>>], Effect("drop", 0, s.socket))

Disconnect(s) ==
  LET s1 == StopHealthMonitoring(ClearConnectionTimeout([s EXCEPT !.reconnectTimeout = FALSE]))
      s2 == IF s1.socket # "none" THEN DropSocket(SocketDisconnect(s1)) ELSE s1
  IN  Out([s2 EXCEPT !.connected = FALSE,
                     !.connectionState = "disconnected",
                     !.reconnectAttempts = 0,
                     !.wakeUpAttempts = 0,
                     !.isWakingUp = FALSE,
                     !.eventQueue = <<>>],
          Effect("clear", 0, ""))

\* setupEventHandlers without its re-attach loop: what the listener property
\* must reject
SetupEventHandlersWithoutReattach(s) == [s EXCEPT !.attached = <<>>]

\* the re-attach loop at the end of setupEventHandlers
SetupEventHandlers(s) == [s EXCEPT !.attached = s.eventListeners]

\* connect(), from "Clear any existing connection" to its return
OpenTransport(s) ==
  LET s1 == Disconnect(s)
      s2 == Out([s1 EXCEPT !.socket = "opening"],
                Effect("open", s1.fetching + s1.sleeping, s1.socket))
  IN  [SetupEventHandlers(s2) EXCEPT !.connectionTimeout = TRUE]

\* connect(), up to the await of ensureBackendAwake; a probe that is already
\* running makes ensureBackendAwake return at once, and the rest of connect()
\* runs before any other task
Connect(s) ==
  IF s.socket = "connected" THEN s
  ELSE IF s.connectionState = "connecting" THEN s
  ELSE LET s1 == Out([s EXCEPT !.connectionState = "connecting"],
                     Effect("connecting", s.fetching + s.sleeping, s.socket))
       IN  IF s1.isWakingUp
           THEN OpenTransport(s1)
           ELSE [s1 EXCEPT !.isWakingUp = TRUE, !.fetching = @ + 1]

\* the event a subscriber emits in reaction to a notification
Reaction == 0

\* the callback of a connection_status subscriber, called by emitToListeners
\* with status 'connected'
React(s) == IF s.reactor > 0 THEN Emit([s EXCEPT !.reactor = @ - 1], Reaction) ELSE s

\* a "connect" handler that notifies the subscribers before it drains the queue
OnConnectNotifyingFirst(s) ==
  LET s1 == Out(Out([s EXCEPT !.socket = "connected",
                          !.connected = TRUE,
                          !.connectionState = "connected",
                          !.reconnectAttempts = 0,
                          !.wakeUpAttempts = 0,
                          !.lastSuccessfulPing = now],
                    Effect("success", 0, "")),
                Effect("stat", 0, "totalConnections"))
  IN  EmitQueuedEvents(React(EmitToListeners(
        StartHealthMonitoring(ClearConnectionTimeout(s1)), "connected")))

\* the handler of the transport's "connect" event
OnConnect(s) ==
  LET s1 == Out(Out([s EXCEPT !.socket = "connected",
                          !.connected = TRUE,
                          !.connectionState = "connected",
                          !.reconnectAttempts = 0,
                          !.wakeUpAttempts = 0,
                          !.lastSuccessfulPing = now],
                    Effect("success", 0, "")),
                Effect("stat", 0, "totalConnections"))
  IN  React(EmitToListeners(
        EmitQueuedEvents(StartHealthMonitoring(ClearConnectionTimeout(s1))),
        "connected"))

\* the handler of the transport's "pong" event
OnPong(s) == [s EXCEPT !.lastSuccessfulPing = now]

\* Date.now() is never 0, so the test of lastSuccessfulPing is a test for null
HeartbeatTimedOut(s) ==
  s.lastSuccessfulPing # Null /\ now - s.lastSuccessfulPing > HEARTBEAT_TIMEOUT

\* the callback of pingInterval
PingInterval(s) ==
  IF s.socket = "connected"
  THEN LET s1 == Out(s, Effect("ping", 0, ""))
       IN  IF HeartbeatTimedOut(s1)
           THEN SocketDisconnect(Out(s1, Effect("heartbeat", 0, "")))
           ELSE s1
  ELSE s

\* the callback of heartbeatInterval
HeartbeatInterval(s) ==
  IF s.connected /\ HeartbeatTimedOut(s)
  THEN IF s.socket # "none" THEN SocketDisconnect(Out(s, Effect("heartbeat", 0, ""))) ELSE s
  ELSE s

----------------------------------------------------------------------------
(* ping(callback) *)

\* ping of the second variant of the class
Ping(s) ==
  IF s.socket # "connected"
  THEN Out(Out([s EXCEPT !.ping.variant = 2], Effect("pingcall", 0, "")),
           Effect("callback", 0, "refused"))
  ELSE Out([s EXCEPT !.ping = [variant |-> 2, timer |-> TRUE, ack |-> TRUE, responded |-> FALSE]],
           Effect("pingcall", 0, ""))

\* ping of the third variant of the class
PingVariant3(s) ==
  IF s.socket = "connected"
  THEN Out([s EXCEPT !.ping = [variant |-> 3, timer |-> TRUE, ack |-> TRUE, responded |-> FALSE]],
           Effect("pingcall", 0, ""))
  ELSE Out(Out([s EXCEPT !.ping.variant = 3], Effect("pingcall", 0, "")),
           Effect("callback", 0, "refused"))

\* an acknowledgment callback without the flag
PingAcknowledgedUnguarded(s) ==
  Out([s EXCEPT !.ping.ack = FALSE, !.ping.timer = FALSE], Effect("callback", 0, "result"))

\* the acknowledgment callback given to socket.emit
PingAcknowledged(s) ==
  LET s1 == [s EXCEPT !.ping.ack = FALSE]
  IN  IF s.ping.variant = 2
      THEN IF ~s.ping.responded
           THEN Out([s1 EXCEPT !.ping.responded = TRUE, !.ping.timer = FALSE],
                    Effect("callback", 0, "result"))
           ELSE s1
      ELSE Out(s1, Effect("callback", 0, "result"))

\* the callback of ping's timeout timer
PingTimeout(s) ==
  LET s1 == [s EXCEPT !.ping.timer = FALSE]
  IN  IF s.ping.variant = 2
      THEN IF ~s.ping.responded
           THEN Out([s1 EXCEPT !.ping.responded = TRUE], Effect("callback", 0, "timeout"))
           ELSE s1
      ELSE Out(s1, Effect("callback", 0, "timeout"))

----------------------------------------------------------------------------
(* Manual operations *)

IsConnected(s) == s.connected /\ s.socket = "connected"

ResetReconnection(s) ==
  [s EXCEPT !.reconnectAttempts = 0, !.wakeUpAttempts = 0, !.reconnectTimeout = FALSE]

\* a cleanup that leaves the statistics as they are
CleanupKeepingStats(s) ==
  [Disconnect(s) EXCEPT !.eventListeners = <<>>, !.eventQueue = <<>>]

Cleanup(s) ==
  Out([Disconnect(s) EXCEPT !.eventListeners = <<>>, !.eventQueue = <<>>],
      Effect("cleanup", 0, ""))

----------------------------------------------------------------------------
(* Callers *)

\* a caller's own teardown or reset
Manual(s) == Out(s, Effect("manual", 0, ""))

----------------------------------------------------------------------------
(* The observer *)

StatusHistory ==
  [ status |-> "none" ]     \* the last connection_status notification

TransportHistory ==
  [ created |-> 0,          \* transports opened, counted up to 2
    orphans |-> 0 ]         \* transports left open that this.socket no longer refers to

CallHistory ==
  [ inFlightCall |-> FALSE, \* the one suspended connect() was called with a transport in flight
    reopened     |-> FALSE ]\* ... and has opened a transport all the same

BudgetHistory ==
  [ run       |-> 0,        \* failures since the last success or manual reset, counted
                            \* up to MAX_RECONNECT_ATTEMPTS + 1
    lastDelay |-> 0 ]       \* the delay of the last retry scheduled on a failure

HeartbeatHistory ==
  [ forced |-> FALSE ]      \* the heartbeat has forced a disconnect and no transport
                            \* has been opened since

ListenerHistory ==
  [ registered |-> [cb \in Callbacks |-> 0] ]  \* on() calls not yet undone by off() or cleanup()

EmitHistory ==
  [ nextId |-> 1 ]          \* identity of the next event a caller emits

EvictionHistory ==
  [ evicted |-> {} ]        \* events evicted from a full queue

SentHistory ==
  [ sent |-> <<>> ]         \* the events handed to a transport, in order

OwedHistory ==
  [ owed |-> {} ]           \* events queued and neither evicted, discarded as stale nor taken
                            \* back by the caller's own teardown

StaleHistory ==
  [ stale |-> {} ]          \* events discarded as stale when the queue was drained

ReturnHistory ==
  [ returned |-> "none" ]   \* what the last emit() returned

Counters == {"totalConnections", "totalDisconnections", "totalReconnects", "totalErrors"}

Statistics ==
  [ stats |-> [c \in Counters |-> 0] ]  \* the counters of this.stats

DispatchHistory ==
  [ invoked |-> <<>>,       \* the callbacks the last notification invoked, in order
    caught  |-> {} ]        \* those of them whose exception emitToListeners caught

PingHistory ==
  [ callbacks |-> <<>> ]    \* what the callback of the last ping() call was invoked with

AnnouncedHistory ==
  [ willReconnect |-> "none" ]  \* the willReconnect of the last 'disconnected' notification

ProbeHistory ==
  [ lastProbe |-> "none" ]  \* how the last health fetch of the socket service ended

Has(h, f) == f \in DOMAIN h

Live(status) == status \in {"opening", "connected"}

Restart(h) == IF Has(h, "run") THEN [h EXCEPT !.run = 0] ELSE h

Observe(h, x, manual) ==
  CASE x.e = "failure" ->
         IF Has(h, "run")
         THEN [h EXCEPT !.run = Min(@ + 1, MAX_RECONNECT_ATTEMPTS + 1)]
         ELSE h
    [] x.e = "success" -> Restart(h)
    [] x.e = "manual"  -> Restart(h)
    [] x.e = "connecting" ->
         IF Has(h, "inFlightCall")
         THEN [h EXCEPT !.inFlightCall = (x.t = "opening" /\ x.n = 0)]
         ELSE h
    [] x.e = "drop"    -> IF Has(h, "orphans") /\ Live(x.t) THEN [h EXCEPT !.orphans = @ + 1] ELSE h
    [] x.e = "on"      -> IF Has(h, "registered")
                          THEN [h EXCEPT !.registered[x.t] = @ + 1]
                          ELSE h
    [] x.e = "off"     -> IF Has(h, "registered")
                          THEN [h EXCEPT !.registered[x.t] = IF @ > 0 THEN @ - 1 ELSE 0]
                          ELSE h
    [] x.e = "cleanup" -> LET h1 == IF Has(h, "registered")
                                    THEN [h EXCEPT !.registered = [cb \in Callbacks |-> 0]]
                                    ELSE h
                          IN  IF Has(h1, "stats")
                              THEN [h1 EXCEPT !.stats = [c \in Counters |-> 0]]
                              ELSE h1
    [] x.e = "stat"    -> IF Has(h, "stats") THEN [h EXCEPT !.stats[x.t] = @ + 1] ELSE h
    [] x.e = "retry"   -> IF Has(h, "lastDelay") THEN [h EXCEPT !.lastDelay = x.n] ELSE h
    [] x.e = "status"  -> LET h1 == IF Has(h, "status") THEN [h EXCEPT !.status = x.t] ELSE h
                          IN  IF Has(h1, "invoked")
                              THEN [h1 EXCEPT !.invoked = <<>>, !.caught = {}]
                              ELSE h1
    [] x.e = "pingcall" -> IF Has(h, "callbacks") THEN [h EXCEPT !.callbacks = <<>>] ELSE h
    [] x.e = "callback" -> IF Has(h, "callbacks") THEN [h EXCEPT !.callbacks = Append(@, x.t)] ELSE h
    [] x.e = "willReconnect" -> IF Has(h, "willReconnect") THEN [h EXCEPT !.willReconnect = x.t] ELSE h
    [] x.e = "invoke"  -> IF Has(h, "invoked") THEN [h EXCEPT !.invoked = Append(@, x.t)] ELSE h
    [] x.e = "caught"  -> IF Has(h, "invoked") THEN [h EXCEPT !.caught = @ \cup {x.t}] ELSE h
    [] x.e = "open"    ->
         LET h1 == IF Has(h, "created")
                   THEN [h EXCEPT !.created = Min(@ + 1, 2),
                                  !.orphans = IF Live(x.t) THEN @ + 1 ELSE @]
                   ELSE h
             h2 == IF Has(h1, "forced") THEN [h1 EXCEPT !.forced = FALSE] ELSE h1
         IN  IF Has(h2, "reopened")
             THEN [h2 EXCEPT !.reopened = @ \/ (h2.inFlightCall /\ x.n = 0),
                             !.inFlightCall = FALSE]
             ELSE h2
    [] x.e = "heartbeat" -> IF Has(h, "forced") THEN [h EXCEPT !.forced = TRUE] ELSE h
    [] x.e = "send"    -> IF Has(h, "sent") THEN [h EXCEPT !.sent = Append(@, x.n)] ELSE h
    [] x.e = "queue"   -> IF Has(h, "owed") THEN [h EXCEPT !.owed = @ \cup {x.n}] ELSE h
    [] x.e = "evict"   -> LET h1 == IF Has(h, "owed") THEN [h EXCEPT !.owed = @ \ {x.n}] ELSE h
                          IN  IF Has(h1, "evicted") THEN [h1 EXCEPT !.evicted = @ \cup {x.n}] ELSE h1
    [] x.e = "stale"   -> LET h1 == IF Has(h, "owed") THEN [h EXCEPT !.owed = @ \ {x.n}] ELSE h
                          IN  IF Has(h1, "stale") THEN [h1 EXCEPT !.stale = @ \cup {x.n}] ELSE h1
    [] x.e = "clear"   -> IF Has(h, "owed") /\ manual THEN [h EXCEPT !.owed = {}] ELSE h
    [] x.e = "return"  -> IF Has(h, "returned") THEN [h EXCEPT !.returned = x.t] ELSE h
    [] x.e = "probe"   -> IF Has(h, "lastProbe") THEN [h EXCEPT !.lastProbe = x.t] ELSE h
    [] OTHER -> h

RECURSIVE ObserveAll(_, _, _)
ObserveAll(h, out, manual) ==
  IF out = <<>> THEN h ELSE ObserveAll(Observe(h, Head(out), manual), Tail(out), manual)

Manually(out) == \E i \in 1..Len(out) : out[i].e = "manual"

----------------------------------------------------------------------------
(* Actions *)

Bounded(s) ==
  /\ s.strayTimers <= MaxStray
  /\ s.fetching + s.sleeping + s.manualWaits <= MaxSuspended

\* the handler has run to its end (or to its next await) with result t
Step(t) ==
  /\ Bounded(t)
  /\ svc' = [t EXCEPT !.out = <<>>]
  /\ hist' = ObserveAll(hist, t.out, Manually(t.out))
  /\ UNCHANGED <<now, api, app>>

\* the module's auto-initialisation: await connect(), then
\* startConnectionMonitoring
AutoInit ==
  /\ svc.initPending
  /\ LET t == Connect([svc EXCEPT !.initPending = FALSE])
     IN  Step(IF t.fetching > svc.fetching
              THEN [t EXCEPT !.initWaiting = TRUE]
              ELSE [t EXCEPT !.monitorOn = TRUE])

\* a suspended connect() has run to its return; the activations are not told
\* apart, so it may be the one the auto-initialisation awaits, and it is when
\* no other is left
Returned(s, mine) ==
  IF s.initWaiting /\ mine THEN [s EXCEPT !.initWaiting = FALSE, !.monitorOn = TRUE] ELSE s

Awaited(s) ==
  IF ~s.initWaiting THEN {FALSE}
  ELSE IF s.fetching + s.sleeping = 0 THEN {TRUE}
  ELSE BOOLEAN

CallConnect == Step(Connect(svc))

CallDisconnect == Step(Disconnect(Manual(svc)))

CallReconnect ==
  Step([Disconnect(ResetReconnection(Manual(svc))) EXCEPT !.manualWaits = @ + 1])

ReconnectResumes ==
  /\ svc.manualWaits > 0
  /\ Step(Connect([svc EXCEPT !.manualWaits = @ - 1]))

CallCleanup == Step(Cleanup(Manual(svc)))

\* window "online": resetReconnection(), connect()
Online == Step(Connect(ResetReconnection(Manual(svc))))

\* document "visibilitychange" with the page visible
VisibilityChange ==
  /\ ~IsConnected(svc)
  /\ svc.reconnectAttempts = 0
  /\ Step(Connect(svc))

\* the interval of startConnectionMonitoring, when it does not find the
\* transport connected
MonitorTick ==
  /\ svc.monitorOn
  /\ ~IsConnected(svc)
  /\ svc.connectionState = "disconnected"
  /\ svc.reconnectAttempts = 0
  /\ Step(Connect(svc))

\* the health fetch of ensureBackendAwake completes
FetchDone(ok) ==
  /\ svc.fetching > 0
  /\ LET s1 == Out([svc EXCEPT !.fetching = @ - 1],
                   Effect("probe", 0, IF ok THEN "awake" ELSE "failed"))
     IN  IF ok
         THEN \E mine \in Awaited(s1) :
                Step(Returned(OpenTransport([s1 EXCEPT !.wakeUpAttempts = 0,
                                                       !.isWakingUp = FALSE]), mine))
         ELSE LET s2 == [s1 EXCEPT !.wakeUpAttempts = @ + 1]
              IN  IF s2.wakeUpAttempts < MAX_WAKE_UP_ATTEMPTS
                  THEN Step([s2 EXCEPT !.sleeping = @ + 1])
                  ELSE \E mine \in Awaited(s2) :
                         Step(Returned(OpenTransport([s2 EXCEPT !.isWakingUp = FALSE]), mine))

\* the 2 s pause ends and ensureBackendAwake calls itself
SleepDone ==
  /\ svc.sleeping > 0
  /\ LET s1 == [svc EXCEPT !.sleeping = @ - 1]
     IN  IF s1.isWakingUp
         THEN \E mine \in Awaited(s1) :
                Step(Returned(OpenTransport([s1 EXCEPT !.isWakingUp = FALSE]), mine))
         ELSE Step([s1 EXCEPT !.isWakingUp = TRUE, !.fetching = @ + 1])

TransportConnects ==
  /\ svc.socket = "opening"
  /\ Step(OnConnect(svc))

TransportConnectError ==
  /\ svc.socket = "opening"
  /\ Step(HandleConnectionError([svc EXCEPT !.socket = "closed"]))

TransportDisconnects(reason) ==
  /\ svc.socket = "connected"
  /\ Step(OnDisconnect([svc EXCEPT !.socket = "closed"], reason))

ConnectionTimeoutFires ==
  /\ svc.connectionTimeout
  /\ LET s1 == [svc EXCEPT !.connectionTimeout = FALSE]
     IN  Step(IF s1.connectionState = "connecting" THEN HandleConnectionError(s1) ELSE s1)

ReconnectTimerFires ==
  /\ svc.reconnectTimeout
  /\ Step(Connect([svc EXCEPT !.reconnectTimeout = FALSE]))

StrayTimerFires ==
  /\ svc.strayTimers > 0
  /\ Step(Connect([svc EXCEPT !.strayTimers = @ - 1]))

\* a caller calls emit(), for the max-th time at most
CallEmitUpTo(max) ==
  /\ hist.nextId <= max
  /\ Bounded(svc)
  /\ LET t == Emit(svc, hist.nextId)
     IN  /\ svc' = [t EXCEPT !.out = <<>>]
         /\ hist' = [ObserveAll(hist, t.out, FALSE) EXCEPT !.nextId = @ + 1]
  /\ UNCHANGED <<now, api, app>>

CallEmit == CallEmitUpTo(MaxEvents)

CallOn(cb) ==
  /\ Len(svc.eventListeners) < MaxListeners
  /\ Step(On(svc, cb))

CallOff(cb) == Step(Off(svc, cb))

Tick ==
  /\ now < MaxTicks * TickMs
  /\ now' = now + TickMs
  /\ UNCHANGED <<svc, hist, api, app>>

Beat ==
  /\ now < MaxBeats * BeatMs
  /\ now' = now + BeatMs
  /\ UNCHANGED <<svc, hist, api, app>>

\* the transport delivers a "pong" event
TransportPong ==
  /\ svc.socket = "connected"
  /\ Step(OnPong(svc))

\* the transport reports an "error" event
TransportError ==
  /\ svc.socket # "none"
  /\ Step(OnError(svc))

PingIntervalFires ==
  /\ svc.healthMonitoring
  /\ Step(PingInterval(svc))

HeartbeatIntervalFires ==
  /\ svc.healthMonitoring
  /\ Step(HeartbeatInterval(svc))

\* a caller pings once the call before is over
PingOver == ~svc.ping.timer /\ ~svc.ping.ack

CallPing ==
  /\ PingOver
  /\ Step(Ping(svc))

CallPingVariant3 ==
  /\ PingOver
  /\ Step(PingVariant3(svc))

\* the server's acknowledgment arrives on the transport that sent the ping
PingAckArrives ==
  /\ svc.ping.ack
  /\ svc.socket = "connected"
  /\ Step(PingAcknowledged(svc))

\* the transport that sent the ping is gone: no acknowledgment will arrive
PingAckLost ==
  /\ svc.ping.ack
  /\ svc.socket # "connected"
  /\ Step([svc EXCEPT !.ping.ack = FALSE])

PingTimeoutFires ==
  /\ svc.ping.timer
  /\ Step(PingTimeout(svc))

----------------------------------------------------------------------------
(* The HTTP client (class ApiService of services/api.js) *)
(*                                                                         *)
(* api holds the fields of the object, the logical requests of the callers *)
(* with the position each has reached in the interceptors, and how the     *)
(* backend is disposed to answer.                                          *)

MAX_RETRIES == 3
RETRY_DELAY == 1000
DEFAULT_TIMEOUT == 30000
LONG_TIMEOUT == 60000
HEALTH_TIMEOUT == 15000
MAX_RETRY_DELAY == 10000
\* maxAttempts of performWakeUp
MAX_PROBES == 3

\* logical requests in one behaviour
MaxRequests == 2
Requests == 1..MaxRequests

Reads == {"getConversations", "getMessages"}
Writes == {"sendMessage", "deleteConversation", "markAsRead"}
Operations == Reads \cup Writes \cup {"getHealthStatus", "searchMessages", "processWebhookFile"}

\* the caller's page and limit
Pages == {1, 2}
Limits == {20, 50}

\* the url of an operation, as its path segments
Url(op) ==
  CASE op = "getConversations"   -> <<"conversations">>
    [] op = "getMessages"        -> <<"conversations", "waId", "messages">>
    [] op = "sendMessage"        -> <<"conversations", "waId", "messages">>
    [] op = "deleteConversation" -> <<"conversations", "waId">>
    [] op = "markAsRead"         -> <<"conversations", "waId", "read">>
    [] op = "getHealthStatus"    -> <<"health">>
    [] op = "searchMessages"     -> <<"messages", "search">>
    [] op = "processWebhookFile" -> <<"process-file">>

\* the body an operation hands to post/patch: the caller's object (0), or none
DataOf(op) ==
  IF op \in {"sendMessage", "markAsRead", "processWebhookFile"} THEN 0 ELSE Null

\* the Content-Type of an operation's request
ContentType(op) ==
  IF op = "processWebhookFile" THEN "multipart/form-data" ELSE "application/json"

\* the instance's transformRequest; a body is the number of times
\* JSON.stringify has been applied to the caller's object
TransformRequest(data, contentType) ==
  IF contentType = "application/json" /\ data # Null THEN data + 1 ELSE data

\* the timeout an operation asks for, the instance's default if it asks for none
TimeoutOf(op) ==
  CASE op = "getHealthStatus"    -> HEALTH_TIMEOUT
    [] op = "processWebhookFile" -> LONG_TIMEOUT
    [] OTHER                     -> DEFAULT_TIMEOUT

\* the operations whose url holds a wake-up endpoint
WakeSensitive(op) == \E endpoint \in {"conversations", "health"} : endpoint \in Range(Url(op))

\* what one dispatch ends with: a response (status), or an axios error that
\* has none (status Null) and may not even have a request
Answer(code, status, request) == [code |-> code, status |-> status, request |-> request]

Ok == Answer("OK", 200, TRUE)
Timeout == Answer("ECONNABORTED", Null, TRUE)
NetworkDown == Answer("ERR_NETWORK", Null, TRUE)
NoResponse == Answer("ECONNRESET", Null, TRUE)
SetupError == Answer("ERR_INVALID_URL", Null, FALSE)
BadStatus(status) ==
  Answer(IF status >= 500 THEN "ERR_BAD_RESPONSE" ELSE "ERR_BAD_REQUEST", status, TRUE)

ErrorStatuses == {404, 429, 501, 503}

Failures ==
  {Timeout, NetworkDown, NoResponse, SetupError} \cup {BadStatus(s) : s \in ErrorStatuses}

\* how the backend answers in one behaviour: anything, or always the same
Backends == {"any", "503", "404"}

Answers(backend) ==
  CASE backend = "any" -> {Ok} \cup Failures
    [] backend = "503" -> {BadStatus(503)}
    [] backend = "404" -> {BadStatus(404)}

ValidateStatus(status) == status >= 200 /\ status < 300

NoValue == [kind |-> "none"]

NewRequest ==
  [ op         |-> "none",
    page       |-> 1,
    limit      |-> 50,
    phase      |-> "idle",     \* idle, awaitProbe, inflight, retryWait, done
    awaits     |-> 0,          \* the request whose probe this one awaits
    probe      |-> [attempt |-> 0, phase |-> "none"],  \* its performWakeUp: fetch, sleep
    woken      |-> "none",     \* how its last performWakeUp ended: awake, gaveUp
    retryCount |-> 0,          \* config.retryCount || 0
    timeout    |-> DEFAULT_TIMEOUT,  \* config.timeout
    data       |-> Null,       \* config.data
    delay      |-> 0,          \* the pause before the retry
    dispatches |-> 0,          \* times the request went to the backend
    rejection  |-> NoValue,    \* what get/post/put/patch/delete threw
    result     |-> NoValue ]   \* what the operation gave its caller

InitApiService ==
  [ isWakingUp    |-> FALSE,
    wakeUpPromise |-> 0,       \* null, or the request whose call started the probe
    backend       |-> "any",
    req           |-> [id \in Requests |-> NewRequest] ]

\* an isRetryableError that takes every 5xx status
IsRetryableErrorAny5xx(error) ==
  IF error.status = Null
  THEN TRUE
  ELSE error.status \in {408, 429} \/ (error.status >= 500 /\ error.status <= 599)

IsRetryableError(error) ==
  IF error.status = Null
  THEN TRUE
  ELSE error.status \in {408, 429, 500, 502, 503, 504}

\* a shouldRetry that allows one retry more
ShouldRetryOnceMore(config) == config.retryCount <= MAX_RETRIES

ShouldRetry(config) == config.retryCount < MAX_RETRIES

\* the retryDelay of the axios instance
\* a retryDelay that starts from the base delay
RetryDelayFromBase(retryCount) == Min(RETRY_DELAY * Pow(2, retryCount - 1), MAX_RETRY_DELAY)

RetryDelay(retryCount) == Min(RETRY_DELAY * Pow(2, retryCount), MAX_RETRY_DELAY)

TransformError(error) ==
  LET transformedError ==
        [ message        |-> "An error occurred",
          status         |-> Null,
          statusText     |-> Null,
          isNetworkError |-> FALSE,
          isTimeoutError |-> FALSE,
          isServerError  |-> FALSE,
          originalError  |-> error ]
  IN  IF error.code = "ECONNABORTED"
      THEN [transformedError EXCEPT !.message = "timeout exceeded",
                                    !.isTimeoutError = TRUE,
                                    !.isNetworkError = TRUE]
      ELSE IF error.code = "ERR_NETWORK"
      THEN [transformedError EXCEPT !.message = "Network error",
                                    !.isNetworkError = TRUE]
      ELSE IF error.status # Null
      THEN [transformedError EXCEPT !.status = error.status,
                                    !.statusText = error.status,
                                    !.message = "Server error",
                                    !.isServerError = TRUE]
      ELSE IF error.request
      THEN [transformedError EXCEPT !.message = "No response from server",
                                    !.isNetworkError = TRUE]
      ELSE [transformedError EXCEPT !.message = "Unknown error occurred"]

\* an empty result that carries the defaults of getMessages
EmptyPageWithDefaults(page, limit) ==
  [ messages   |-> <<>>,
    pagination |-> [page |-> 1, limit |-> 50, total |-> 0, has_more |-> FALSE] ]

\* the catch blocks of the operations
EmptyPage(page, limit) ==
  [ messages   |-> <<>>,
    pagination |-> [page |-> page, limit |-> limit, total |-> 0, has_more |-> FALSE] ]

\* catch blocks that all return a substitute on a network or timeout failure
CaughtEverywhere(r, error) ==
  IF error.isNetworkError \/ error.isTimeoutError
  THEN [kind |-> "resolved",
        value |-> IF r.op = "getMessages" THEN EmptyPage(r.page, r.limit) ELSE <<>>]
  ELSE [kind |-> "rejected", error |-> error]

Caught(r, error) ==
  IF r.op \in Reads /\ (error.isNetworkError \/ error.isTimeoutError)
  THEN [kind |-> "resolved",
        value |-> IF r.op = "getMessages" THEN EmptyPage(r.page, r.limit) ELSE <<>>]
  ELSE [kind |-> "rejected", error |-> error]

ResponseData(r) == [kind |-> "resolved", value |-> "response.data"]

\* the request goes to the backend
Dispatch(a, id) ==
  [a EXCEPT !.req[id].phase = "inflight",
            !.req[id].dispatches = @ + 1,
            \* the body sent, which stays in the config the error handler is given
            !.req[id].data = TransformRequest(@, ContentType(a.req[id].op))]

ShouldWakeUpBackend(a, config) ==
  /\ \E endpoint \in {"conversations", "health"} : endpoint \in Range(config.url)
  /\ ~a.isWakingUp

\* ensureBackendAwake up to its await; performWakeUp runs to its first fetch
EnsureBackendAwake(a, id) ==
  IF a.wakeUpPromise # 0
  THEN [a EXCEPT !.req[id].phase = "awaitProbe", !.req[id].awaits = a.wakeUpPromise]
  ELSE [a EXCEPT !.isWakingUp = TRUE,
                 !.wakeUpPromise = id,
                 !.req[id].phase = "awaitProbe",
                 !.req[id].awaits = id,
                 !.req[id].probe = [attempt |-> 1, phase |-> "fetch"]]

Config(r) == [url |-> Url(r.op), retryCount |-> r.retryCount]

\* the request interceptor
RequestInterceptor(a, id) ==
  IF ShouldWakeUpBackend(a, Config(a.req[id]))
  THEN EnsureBackendAwake(a, id)
  ELSE Dispatch(a, id)

RECURSIVE DispatchAll(_, _)
DispatchAll(a, ids) ==
  IF ids = {} THEN a
  ELSE LET id == CHOOSE x \in ids : TRUE
       IN  DispatchAll(Dispatch(a, id), ids \ {id})

\* an ensureBackendAwake whose finally leaves the flag set
WakeUpReturnsFlagStuck(a, id) ==
  LET a1 == [a EXCEPT !.req[id].probe = [attempt |-> 0, phase |-> "none"],
                      !.wakeUpPromise = 0]
  IN  DispatchAll(a1, {j \in Requests : a1.req[j].phase = "awaitProbe" /\ a1.req[j].awaits = id})

\* performWakeUp of request id returns: the finally of its ensureBackendAwake
\* runs, and the interceptors that awaited the promise go on
WakeUpReturns(a, id) ==
  LET a1 == [a EXCEPT !.req[id].probe = [attempt |-> 0, phase |-> "none"],
                      !.isWakingUp = FALSE,
                      !.wakeUpPromise = 0]
  IN  DispatchAll(a1, {j \in Requests : a1.req[j].phase = "awaitProbe" /\ a1.req[j].awaits = id})

\* the operation returns or throws
Settle(a, id, rejection, result) ==
  [a EXCEPT !.req[id].phase = "done",
            !.req[id].rejection = rejection,
            !.req[id].result = result]

\* a retryRequest that forgets the count
RetryRequestForgettingCount(a, id) ==
  [a EXCEPT !.req[id].delay = RetryDelay(a.req[id].retryCount + 1),
            !.req[id].timeout = Min((3 * @) \div 2, LONG_TIMEOUT),
            !.req[id].phase = "retryWait"]

RetryRequest(a, id) ==
  LET retryCount == a.req[id].retryCount + 1
  IN  [a EXCEPT !.req[id].retryCount = retryCount,
                !.req[id].delay = RetryDelay(retryCount),
                !.req[id].timeout = Min((3 * @) \div 2, LONG_TIMEOUT),
                !.req[id].phase = "retryWait"]

\* an error handler that passes the error of the last retry on as it came
ResponseErrorRawAfterRetries(a, id, error) ==
  IF IsRetryableError(error) /\ ShouldRetry(Config(a.req[id]))
  THEN RetryRequest(a, id)
  ELSE IF a.req[id].retryCount > 0
  THEN Settle(a, id, error, [kind |-> "rejected", error |-> error])
  ELSE LET transformedError == TransformError(error)
       IN  Settle(a, id, transformedError, Caught(a.req[id], transformedError))

\* the response interceptor's error handler
ResponseError(a, id, error) ==
  IF IsRetryableError(error) /\ ShouldRetry(Config(a.req[id]))
  THEN RetryRequest(a, id)
  ELSE LET transformedError == TransformError(error)
       IN  Settle(a, id, transformedError, Caught(a.req[id], transformedError))

ApiStep(a) ==
  /\ api' = a
  /\ UNCHANGED <<svc, hist, now, app>>

\* the calls that have not returned
Outstanding == {id \in Requests : api.req[id].phase \notin {"idle", "done"}}

\* a caller calls one of the operations; the call is request id, the first
\* that is not outstanding
CallApi(id, op, page, limit) ==
  /\ id \notin Outstanding
  /\ \A j \in 1..(id - 1) : j \in Outstanding
  /\ ApiStep(RequestInterceptor(
       [api EXCEPT !.req[id] = [NewRequest EXCEPT !.op = op, !.page = page, !.limit = limit,
                                              !.timeout = TimeoutOf(op),
                                              !.data = DataOf(op)]],
       id))

\* a caller that awaits each call before it makes the next
CallApiInTurn(op, page, limit) ==
  /\ Outstanding = {}
  /\ \E id \in Requests : CallApi(id, op, page, limit)

\* a performWakeUp that throws once its attempts are used up, the request
\* being rejected with what it threw
WakeUpGivesUpThrowing(a, id) ==
  LET a1 == [a EXCEPT !.req[id].probe = [attempt |-> 0, phase |-> "none"],
                      !.isWakingUp = FALSE,
                      !.wakeUpPromise = 0]
      thrown == TransformError(SetupError)
  IN  Settle(a1, id, thrown, [kind |-> "rejected", error |-> thrown])

\* performWakeUp leaves its loop with every attempt failed, and returns
WakeUpGivesUp(a, id) == WakeUpReturns([a EXCEPT !.req[id].woken = "gaveUp"], id)

\* performWakeUp returns from its loop on a response that is ok
WakeUpSucceeds(a, id) == WakeUpReturns([a EXCEPT !.req[id].woken = "awake"], id)

\* the health fetch of performWakeUp ends
ProbeFetchDone(id, ok) ==
  /\ api.req[id].probe.phase = "fetch"
  /\ IF ok
     THEN ApiStep(WakeUpSucceeds(api, id))
     ELSE IF api.req[id].probe.attempt < MAX_PROBES
     THEN ApiStep([api EXCEPT !.req[id].probe.phase = "sleep"])
     ELSE ApiStep(WakeUpGivesUp(api, id))

\* the pause of performWakeUp ends
ProbeSleepDone(id) ==
  /\ api.req[id].probe.phase = "sleep"
  /\ ApiStep([api EXCEPT !.req[id].probe = [attempt |-> @.attempt + 1, phase |-> "fetch"]])

\* the backend answers, or the dispatch fails without an answer
Respond(id, answer) ==
  /\ api.req[id].phase = "inflight"
  /\ answer \in Answers(api.backend)
  /\ IF answer.status # Null /\ ValidateStatus(answer.status)
     THEN ApiStep(Settle(api, id, NoValue, ResponseData(api.req[id])))
     ELSE ApiStep(ResponseError(api, id, answer))

\* the pause of retryRequest ends: the request goes through the instance again
RetryWaitDone(id) ==
  /\ api.req[id].phase = "retryWait"
  /\ ApiStep(RequestInterceptor(api, id))

Lifecycle ==
  \/ AutoInit
  \/ CallConnect
  \/ CallDisconnect
  \/ CallReconnect
  \/ ReconnectResumes
  \/ CallCleanup
  \/ Online
  \/ VisibilityChange
  \/ MonitorTick
  \/ \E ok \in BOOLEAN : FetchDone(ok)
  \/ SleepDone
  \/ TransportConnects
  \/ TransportConnectError
  \/ \E reason \in ServerReasons : TransportDisconnects(reason)
  \/ ConnectionTimeoutFires
  \/ ReconnectTimerFires
  \/ StrayTimerFires

\* the connection manager under every caller, timer and transport callback
Init == svc = InitService /\ now = 0 /\ api = InitApiService /\ app = InitApp /\ hist = StatusHistory @@ TransportHistory @@ CallHistory

Spec == Init /\ [][Lifecycle]_vars

\* ... with callers that register and remove listeners
InitListeners == svc = InitService /\ now = 0 /\ api = InitApiService /\ app = InitApp /\ hist = TransportHistory @@ ListenerHistory

NextListeners ==
  \/ Lifecycle
  \/ \E cb \in Callbacks : CallOn(cb)
  \/ \E cb \in Callbacks : CallOff(cb)

SpecListeners == InitListeners /\ [][NextListeners]_vars

\* connect() and disconnect() callers, the probe, the transport and the timers
Core ==
  \/ CallConnect
  \/ CallDisconnect
  \/ \E ok \in BOOLEAN : FetchDone(ok)
  \/ SleepDone
  \/ TransportConnects
  \/ TransportConnectError
  \/ \E reason \in ServerReasons : TransportDisconnects(reason)
  \/ ConnectionTimeoutFires
  \/ ReconnectTimerFires
  \/ StrayTimerFires

\* the manager left to itself, with a backend that refuses every attempt
InitFailing == svc = InitService /\ now = 0 /\ api = InitApiService /\ app = InitApp /\ hist = StatusHistory @@ BudgetHistory

NextFailing ==
  \/ AutoInit
  \/ MonitorTick
  \/ \E ok \in BOOLEAN : FetchDone(ok)
  \/ SleepDone
  \/ TransportConnectError
  \/ ConnectionTimeoutFires
  \/ ReconnectTimerFires
  \/ StrayTimerFires

SpecFailing == InitFailing /\ [][NextFailing]_vars

\* the manager left to itself after its auto-initialisation, with its health
\* monitoring and a clock; pending timers fire and pending fetches complete
InitHeartbeat == svc = InitService /\ now = 0 /\ api = InitApiService /\ app = InitApp /\ hist = HeartbeatHistory

NextHeartbeat ==
  \/ AutoInit
  \/ MonitorTick
  \/ \E ok \in BOOLEAN : FetchDone(ok)
  \/ SleepDone
  \/ TransportConnects
  \/ TransportConnectError
  \/ \E reason \in ServerReasons : TransportDisconnects(reason)
  \/ ConnectionTimeoutFires
  \/ ReconnectTimerFires
  \/ StrayTimerFires
  \/ TransportPong
  \/ PingIntervalFires
  \/ HeartbeatIntervalFires
  \/ Beat

\* the event loop: a pending timer fires, a pending fetch completes (it is
\* aborted after 10 s at the latest), a pause ends.  Each is the weak fairness
\* of the action that takes the timer, the fetch or the pause away, written
\* with the state change of that action.
TimersFire ==
  []<>(svc.strayTimers = 0) \/ []<><<svc'.strayTimers < svc.strayTimers>>_vars

FetchesComplete ==
  []<>(svc.fetching = 0) \/ []<><<svc'.fetching < svc.fetching>>_vars

PausesEnd ==
  []<>(svc.sleeping = 0) \/ []<><<svc'.sleeping < svc.sleeping>>_vars

SpecHeartbeat ==
  /\ InitHeartbeat
  /\ [][NextHeartbeat]_vars
  /\ TimersFire
  /\ FetchesComplete
  /\ PausesEnd

\* the HTTP client under a caller that makes one call at a time, and a
\* backend
InitApi ==
  /\ svc = InitService
  /\ now = 0
  /\ hist = StatusHistory
  /\ api \in {[InitApiService EXCEPT !.backend = b] : b \in Backends}
  /\ app = InitApp

NextApi ==
  \/ \E op \in Operations :
       IF op = "getMessages"
       THEN \E page \in Pages, limit \in Limits : CallApiInTurn(op, page, limit)
       ELSE CallApiInTurn(op, 1, 50)
  \/ \E id \in Requests, ok \in BOOLEAN : ProbeFetchDone(id, ok)
  \/ \E id \in Requests : ProbeSleepDone(id)
  \/ \E id \in Requests, answer \in {Ok} \cup Failures : Respond(id, answer)
  \/ \E id \in Requests : RetryWaitDone(id)

SpecApi == InitApi /\ [][NextApi]_vars

\* ... where every dispatch, every probe and every pause comes to its end
Completes(id) ==
  \/ \E ok \in BOOLEAN : ProbeFetchDone(id, ok)
  \/ ProbeSleepDone(id)
  \/ \E answer \in {Ok} \cup Failures : Respond(id, answer)
  \/ RetryWaitDone(id)

SpecApiCompleting == SpecApi /\ \A id \in Requests : WF_vars(Completes(id))

\* ... under callers whose calls overlap, with a backend that answers 503 so
\* that requests come back to the request interceptor
ProbeOperations == {"getConversations", "getHealthStatus", "searchMessages"}

InitProbe ==
  /\ svc = InitService
  /\ now = 0
  /\ hist = StatusHistory
  /\ api = [InitApiService EXCEPT !.backend = "503"]
  /\ app = InitApp

NextProbe ==
  \/ \E id \in Requests, op \in ProbeOperations : CallApi(id, op, 1, 50)
  \/ \E id \in Requests, ok \in BOOLEAN : ProbeFetchDone(id, ok)
  \/ \E id \in Requests : ProbeSleepDone(id)
  \/ \E id \in Requests : Respond(id, BadStatus(503))
  \/ \E id \in Requests : RetryWaitDone(id)

SpecProbe == InitProbe /\ [][NextProbe]_vars

\* isRetryableError asked about one failure: every error status, and the
\* failures that have no response
ClientErrors == 400..499
ServerErrors == 500..599

Classified ==
  {Timeout, NetworkDown, NoResponse, SetupError}
    \cup {BadStatus(s) : s \in ClientErrors \cup ServerErrors}

InitRetryable ==
  /\ svc = InitService
  /\ now = 0
  /\ api = InitApiService /\ app = InitApp
  /\ hist \in {[error |-> e, asked |-> FALSE, retryable |-> FALSE] : e \in Classified}

Classify ==
  /\ ~hist.asked
  /\ hist' = [hist EXCEPT !.asked = TRUE, !.retryable = IsRetryableError(hist.error)]
  /\ UNCHANGED <<svc, now, api, app>>

NextRetryable == Classify

SpecRetryable == InitRetryable /\ [][NextRetryable]_vars

\* callers of connect(), disconnect(), on() and off(), a backend that is
\* awake and a transport that connects and disconnects, with
\* connection_status subscribers whose callbacks may throw
Throwing == [Callbacks -> {"returns", "throws"}]

InitThrowing ==
  /\ svc \in {[InitService EXCEPT !.callbackDoes = does] : does \in Throwing}
  /\ now = 0
  /\ api = InitApiService /\ app = InitApp
  /\ hist = TransportHistory @@ ListenerHistory @@ DispatchHistory

NextSubscribers ==
  \/ CallConnect
  \/ CallDisconnect
  \/ FetchDone(TRUE)
  \/ TransportConnects
  \/ \E reason \in ServerReasons : TransportDisconnects(reason)
  \/ \E cb \in Callbacks : CallOn(cb)
  \/ \E cb \in Callbacks : CallOff(cb)

SpecThrowing == InitThrowing /\ [][NextSubscribers]_vars

\* the same, with subscribers whose callbacks may call off() for themselves
\* or for the other callback
Removing == [Callbacks -> {"returns", "removesSelf", "removesOther"}]

InitRemoving ==
  /\ svc \in {[InitService EXCEPT !.callbackDoes = does] : does \in Removing}
  /\ now = 0
  /\ api = InitApiService /\ app = InitApp
  /\ hist = TransportHistory @@ ListenerHistory @@ DispatchHistory

SpecRemoving == InitRemoving /\ [][NextSubscribers]_vars

\* callers of connect(), disconnect() and ping(), served by the second
\* variant of the class
InitPing == svc = InitService /\ now = 0 /\ api = InitApiService /\ app = InitApp /\ hist = TransportHistory @@ PingHistory

Transport ==
  \/ CallConnect
  \/ CallDisconnect
  \/ \E ok \in BOOLEAN : FetchDone(ok)
  \/ SleepDone
  \/ TransportConnects
  \/ \E reason \in ServerReasons : TransportDisconnects(reason)
  \/ StrayTimerFires

NextPing ==
  \/ Transport
  \/ CallPing
  \/ PingAckArrives
  \/ PingAckLost
  \/ PingTimeoutFires

SpecPing == InitPing /\ [][NextPing]_vars

\* ... served by either variant
NextPings ==
  \/ NextPing
  \/ CallPingVariant3

SpecPings == InitPing /\ [][NextPings]_vars

\* the connection manager, with what its 'disconnected' notifications announce
InitAnnounced ==
  /\ svc = InitService
  /\ now = 0
  /\ api = InitApiService /\ app = InitApp
  /\ hist = StatusHistory @@ TransportHistory @@ AnnouncedHistory

SpecAnnounced == InitAnnounced /\ [][Lifecycle]_vars

\* transformError applied to one failure: every error status, and the
\* failures that have no response
Untransformed == [kind |-> "none"]

InitTransform ==
  /\ svc = InitService
  /\ now = 0
  /\ api = InitApiService /\ app = InitApp
  /\ hist \in {[error |-> e, transformed |-> FALSE, normalized |-> Untransformed] : e \in Classified}

Transform ==
  /\ ~hist.transformed
  /\ hist' = [hist EXCEPT !.transformed = TRUE, !.normalized = TransformError(hist.error)]
  /\ UNCHANGED <<svc, now, api, app>>

NextTransform == Transform

SpecTransform == InitTransform /\ [][NextTransform]_vars

\* both wake-up routines under health probes that succeed or fail: callers of
\* connect() and disconnect(), and a caller of the HTTP operations
InitWakeUp ==
  /\ svc = InitService
  /\ now = 0
  /\ hist = TransportHistory @@ ProbeHistory
  /\ api = [InitApiService EXCEPT !.backend = "503"]
  /\ app = InitApp

NextWakeUp ==
  \/ CallConnect
  \/ CallDisconnect
  \/ \E ok \in BOOLEAN : FetchDone(ok)
  \/ SleepDone
  \/ TransportConnects
  \/ \E op \in ProbeOperations : CallApiInTurn(op, 1, 50)
  \/ \E id \in Requests, ok \in BOOLEAN : ProbeFetchDone(id, ok)
  \/ \E id \in Requests : ProbeSleepDone(id)
  \/ \E id \in Requests : Respond(id, BadStatus(503))
  \/ \E id \in Requests : RetryWaitDone(id)

SpecWakeUp == InitWakeUp /\ [][NextWakeUp]_vars

\* ... with callers that emit events
InitCapacity == svc = InitService /\ now = 0 /\ api = InitApiService /\ app = InitApp /\ hist = EmitHistory @@ EvictionHistory

NextCapacity ==
  \/ Lifecycle
  \/ CallEmit

SpecCapacity == InitCapacity /\ [][NextCapacity]_vars

\* ... with an observer of what is queued and what is sent
InitQueue == svc = InitService /\ now = 0 /\ api = InitApiService /\ app = InitApp /\ hist = EmitHistory @@ SentHistory @@ OwedHistory

NextQueue ==
  \/ Core
  \/ CallEmit

SpecQueue == InitQueue /\ [][NextQueue]_vars

\* ... with a subscriber of connection_status that emits an event when it is
\* told 'connected'
InitDrain ==
  /\ svc = [InitService EXCEPT !.reactor = MaxReactions]
  /\ now = 0
  /\ api = InitApiService /\ app = InitApp
  /\ hist = EmitHistory @@ SentHistory

NextDrain ==
  \/ Core
  \/ CallEmit

SpecDrain == InitDrain /\ [][NextDrain]_vars

\* ... with a caller whose second event has a name that the transport refuses
RefusedEvents == {2}

InitEmit ==
  /\ svc = [InitService EXCEPT !.reserved = RefusedEvents]
  /\ now = 0
  /\ api = InitApiService /\ app = InitApp
  /\ hist = EmitHistory @@ SentHistory @@ ReturnHistory

NextEmit ==
  \/ Core
  \/ CallEmit

SpecEmit == InitEmit /\ [][NextEmit]_vars

\* the connection manager with its statistics, and a transport that also
\* reports "error" events; the counters are followed up to MaxCounted
MaxCounted == 2

StatsWithin == \A c \in Counters : hist.stats[c] < MaxCounted

InitStats == svc = InitService /\ now = 0 /\ api = InitApiService /\ app = InitApp /\ hist = TransportHistory @@ Statistics

NextStats ==
  \/ StatsWithin /\ Lifecycle
  \/ StatsWithin /\ TransportError

SpecStats == InitStats /\ [][NextStats]_vars

\* ... with a clock, and an observer of what is discarded and what is sent
InitClock == svc = InitService /\ now = 0 /\ api = InitApiService /\ app = InitApp /\ hist = EmitHistory @@ SentHistory @@ StaleHistory

NextClock ==
  \/ Core
  \/ CallEmitUpTo(MaxAged)
  \/ Tick

SpecClock == InitClock /\ [][NextClock]_vars

----------------------------------------------------------------------------
(* The page: actions *)

\* what the user chose last, by a click
ChoiceHistory == [chosen |-> "none"]

AppStep(a, chosen) ==
  /\ Len(a.loading) <= MaxLoads
  /\ app' = a
  /\ hist' = IF Has(hist, "chosen") THEN [hist EXCEPT !.chosen = chosen] ELSE hist
  /\ UNCHANGED <<svc, now, api>>

LoadResolves(i, conversationsData) ==
  /\ i \in 1..Len(app.loading)
  /\ AppStep(LoadConversationsResolves(app, i, conversationsData), hist.chosen)

LoadRejects(i) ==
  /\ i \in 1..Len(app.loading)
  /\ AppStep(LoadConversationsRejects(app, i), hist.chosen)

\* the list and the chat are rendered once the first load has settled
ClickConversation(conv) ==
  /\ ~app.isLoading
  /\ conv \in Range(app.conversations)
  /\ AppStep(HandleSelectConversation(app, conv), conv)

ClickBack ==
  /\ ~app.isLoading
  /\ app.selected # "none"
  /\ AppStep(HandleBackToList(app), "none")

ClickRefresh ==
  /\ ~app.isLoading
  /\ AppStep(HandleRefresh(app), hist.chosen)

ClickRetry ==
  /\ ~app.isLoading
  /\ app.error
  /\ AppStep(HandleRetry(app), hist.chosen)

\* the 30 s interval of the effect
RefreshInterval == AppStep(LoadConversations(app), hist.chosen)

InitPage ==
  /\ svc = InitService
  /\ now = 0
  /\ api = InitApiService
  /\ app = InitApp
  /\ hist = ChoiceHistory

NextPage ==
  \/ \E i \in 1..MaxLoads, conversationsData \in Loaded :
       LoadResolves(i, conversationsData)
  \/ \E i \in 1..MaxLoads : LoadRejects(i)
  \/ \E conv \in Conversations : ClickConversation(conv)
  \/ ClickBack
  \/ ClickRefresh
  \/ ClickRetry
  \/ RefreshInterval

SpecPage == InitPage /\ [][NextPage]_vars

----------------------------------------------------------------------------
(* Properties *)

Ids(q) == [i \in 1..Len(q) |-> q[i].id]

\* C1: a callback registered with on() and not removed by off() (or by the
\* terminal cleanup()) is attached to whichever transport is live, also after
\* the transport has been replaced by a reconnect.
C1_ListenersSurviveReconnect ==
  Live(svc.socket) =>
    \A cb \in Callbacks : hist.registered[cb] > 0 => cb \in Range(svc.attached)

\* a second transport is connected and a callback registered earlier is on it
C1_Witness ==
  /\ hist.created = 2
  /\ svc.socket = "connected"
  /\ hist.registered["cbA"] > 0
  /\ "cbA" \in Range(svc.attached)

\* C2: an event queued while disconnected, and neither evicted, stale nor
\* withdrawn by the caller's own disconnect(), has been sent exactly once by
\* the time the next successful connect has been handled.
C2_QueuedEventsSentOnConnect ==
  /\ \A id \in 1..MaxEvents : Occurrences(hist.sent, id) <= 1
  /\ svc.socket = "connected" => \A id \in hist.owed : Occurrences(hist.sent, id) = 1

\* an event was queued and the next connect has succeeded
C2_Witness ==
  /\ svc.socket = "connected"
  /\ hist.owed # {}

\* C3: the retry scheduled on the N-th consecutive failure is delayed by
\* min(reconnectDelay * 1.5^(N-1), 30000) ms.
C3_BackoffGrowsWithFailures ==
  hist.run \in 1..MAX_RECONNECT_ATTEMPTS => hist.lastDelay = BackoffDelay(hist.run)

\* two attempts in a row have failed and a retry is pending
C3_Witness ==
  /\ hist.run = 2
  /\ svc.reconnectTimeout

\* C4: when every attempt fails, the attempts that follow
\* MAX_RECONNECT_ATTEMPTS consecutive failures are not made: by then "failed"
\* has been notified and no retry is pending.
C4_BudgetIsExhausted ==
  hist.run > MAX_RECONNECT_ATTEMPTS => hist.status = "failed" /\ ~svc.reconnectTimeout

\* more attempts have failed in a row than the budget allows
C4_Witness == hist.run = MAX_RECONNECT_ATTEMPTS + 1

\* C5 is about the state in which the budget is exhausted; the object never
\* gets there: reconnectAttempts stays far below MAX_RECONNECT_ATTEMPTS.
C5_BudgetNeverExhausted ==
  /\ svc.reconnectAttempts <= 2
  /\ hist.status # "failed"

\* C6: the Pending Event Queue never holds more than its capacity, and an
\* event queued when it is full evicts exactly the oldest entry, the others
\* keeping their order.
C6_QueueCapacity ==
  [][ /\ Len(svc'.eventQueue) <= QueueCapacity
      /\ (hist'.nextId # hist.nextId /\ svc.socket # "connected"
            /\ Len(svc.eventQueue) = QueueCapacity)
          => Ids(svc'.eventQueue) = Append(Tail(Ids(svc.eventQueue)), hist.nextId) ]_vars

\* the queue is full and its oldest entry has been evicted
C6_Witness ==
  /\ Len(svc.eventQueue) = QueueCapacity
  /\ hist.evicted = {1}
  /\ svc.eventQueue[1].id = 2

\* C7: an entry older than MAX_AGE when the queue is drained is not sent, then
\* or later, and no entry that was drained (sent or discarded) is in the queue
\* again.
C7_StaleEventsNeverSent ==
  [][ /\ (svc.socket = "opening" /\ svc'.socket = "connected")
          => \A i \in 1..Len(svc.eventQueue) :
               now - svc.eventQueue[i].timestamp > MAX_AGE
                 => svc.eventQueue[i].id \in hist'.stale
      /\ hist'.stale \cap Range(hist'.sent) = {}
      /\ \A i \in 1..Len(svc'.eventQueue) :
           svc'.eventQueue[i].id \notin hist'.stale \cup Range(hist'.sent) ]_vars

\* a drain has discarded one entry and sent another
C7_Witness ==
  /\ svc.socket = "connected"
  /\ hist.stale # {}
  /\ hist.sent # <<>>

\* C8: no transport is left live once the object has let go of it: when
\* connect() opens a transport, the ones opened before are closed.
C8_OneLiveTransport == hist.orphans = 0

\* a second transport is live, the first one having been closed
C8_Witness ==
  /\ hist.created = 2
  /\ Live(svc.socket)

\* C9: connect() called while the transport is connected changes nothing, and
\* connect() called while an attempt is in flight opens no transport.
C9_ConnectIsNoOpInFlight ==
  [][ /\ (svc.socket = "connected" /\ CallConnect) => UNCHANGED svc
      /\ ~hist'.reopened ]_vars

\* connect() has been called with a transport in flight
C9_Witness ==
  /\ hist.inFlightCall
  /\ svc.socket = "opening"

\* C11: when a health-monitoring timer finds the last pong older than
\* HEARTBEAT_TIMEOUT on a connected transport, it closes the transport, the
\* state becomes "disconnected", health monitoring stops and a reconnect timer
\* is pending; and once that has happened a transport is eventually opened
\* with no caller acting.
C11_HeartbeatRecovery ==
  /\ [][ ((PingIntervalFires \/ HeartbeatIntervalFires)
           /\ svc.socket = "connected" /\ svc.connected
           /\ now - svc.lastSuccessfulPing > HEARTBEAT_TIMEOUT)
          => /\ svc'.socket = "closed"
             /\ ~svc'.connected
             /\ svc'.connectionState = "disconnected"
             /\ ~svc'.healthMonitoring
             /\ svc'.strayTimers = svc.strayTimers + 1
             /\ hist'.forced ]_vars
  /\ (hist.forced ~> ~hist.forced)

\* the heartbeat has closed a transport whose last pong was too old
C11_Witness ==
  /\ hist.forced
  /\ svc.socket = "closed"
  /\ now - svc.lastSuccessfulPing > HEARTBEAT_TIMEOUT

\* C12: when disconnect() or cleanup() returns, no timer of the manager is
\* pending (connection timeout, reconnect timer of either path, health
\* intervals), there is no transport and the state is "disconnected".
C12_TeardownCancelsTimers ==
  [][ (CallDisconnect \/ CallCleanup)
        => /\ svc'.socket = "none"
           /\ svc'.connectionState = "disconnected"
           /\ ~svc'.connectionTimeout
           /\ ~svc'.healthMonitoring
           /\ ~svc'.reconnectTimeout
           /\ svc'.strayTimers = 0 ]_vars

\* the manager is torn down and a timer that calls connect() is pending
C12_Witness ==
  /\ svc.socket = "none"
  /\ svc.connectionState = "disconnected"
  /\ svc.fetching + svc.sleeping + svc.manualWaits = 0
  /\ svc.strayTimers > 0

\* C13: when reconnect() reaches its pause, reconnectAttempts is 0, the
\* transport is torn down and no automatic reconnect is pending, whichever
\* path had scheduled it: the attempt its own connect() starts after the pause
\* is the only one.
C13_ManualReconnect ==
  [][ CallReconnect
        => /\ svc'.reconnectAttempts = 0
           /\ svc'.socket = "none"
           /\ svc'.manualWaits = svc.manualWaits + 1
           /\ ~svc'.reconnectTimeout
           /\ svc'.strayTimers = 0 ]_vars

\* reconnect() is in its pause while a timer that calls connect() is pending
C13_Witness ==
  /\ svc.manualWaits = 1
  /\ svc.strayTimers > 0

\* C14: a request whose every dispatch ends with status 503 goes to the
\* backend at most MAX_RETRIES + 1 times, and when its call has returned it
\* has gone there exactly MAX_RETRIES + 1 times, after MAX_RETRIES retries,
\* and was rejected with the status; a request whose dispatch ends with
\* status 404 is never retried, goes to the backend once and is rejected.
C14_RetryCount ==
  \A id \in Requests :
    LET r == api.req[id]
    IN  /\ api.backend = "503" =>
            /\ r.dispatches <= MAX_RETRIES + 1
            /\ r.retryCount <= MAX_RETRIES
            /\ r.phase = "done" =>
                 /\ r.dispatches = MAX_RETRIES + 1
                 /\ r.retryCount = MAX_RETRIES
                 /\ r.rejection # NoValue
                 /\ r.rejection.status = 503
                 /\ r.result.kind = "rejected"
        /\ api.backend = "404" =>
            /\ r.dispatches <= 1
            /\ r.retryCount = 0
            /\ r.phase # "retryWait"
            /\ r.phase = "done" =>
                 /\ r.dispatches = 1
                 /\ r.rejection # NoValue
                 /\ r.rejection.status = 404
                 /\ r.result.kind = "rejected"

\* a call has returned after its third retry, whose pause was 8000 ms,
\* against a backend that answers 503
C14_Witness ==
  /\ api.backend = "503"
  /\ \E id \in Requests :
       /\ api.req[id].phase = "done"
       /\ api.req[id].dispatches = MAX_RETRIES + 1
       /\ api.req[id].delay = 8000

\* C15: isRetryableError answers true exactly when the failure has no
\* response, or the status of its response is 408, 429, 500, 502, 503 or 504;
\* it answers false for every other status, 501 and 505 to 599 among them.
C15_RetryableStatuses ==
  hist.asked =>
    (hist.retryable <=>
       \/ hist.error.status = Null
       \/ hist.error.status \in {408, 429, 500, 502, 503, 504})

\* C15 as stated: true exactly for no response, 408, 429 and every status
\* from 500 to 599.
C15_Any5xxIsRetryable ==
  hist.asked =>
    (hist.retryable <=>
       \/ hist.error.status = Null
       \/ hist.error.status \in {408, 429}
       \/ hist.error.status \in ServerErrors)

\* isRetryableError has answered false for status 501
C15_Witness ==
  /\ hist.asked
  /\ hist.error.status = 501
  /\ ~hist.retryable

\* C16: when the request behind getMessages or getConversations has failed
\* for good without a response (a timeout or another failure of a request
\* that was sent), the retries are used up and the call resolves: getMessages
\* with no messages and a pagination made of the caller's page and limit, a
\* total of 0 and has_more false, getConversations with the empty list.  When
\* the failure carries a status the call rejects with it.
C16_ReadsDegrade ==
  \A id \in Requests :
    LET r == api.req[id]
    IN  (r.phase = "done" /\ r.op \in Reads /\ r.rejection # NoValue) =>
          /\ (r.rejection.originalError.status = Null
                /\ r.rejection.originalError.request) =>
               /\ r.retryCount = MAX_RETRIES
               /\ r.result.kind = "resolved"
               /\ r.op = "getMessages" =>
                    r.result.value =
                      [ messages   |-> <<>>,
                        pagination |-> [page |-> r.page, limit |-> r.limit,
                                        total |-> 0, has_more |-> FALSE] ]
               /\ r.op = "getConversations" => r.result.value = <<>>
          /\ r.rejection.originalError.status # Null =>
               /\ r.result.kind = "rejected"
               /\ r.result.error = r.rejection

\* getMessages asked for page 2 with limit 20 has resolved with the empty
\* page after its last dispatch timed out
C16_Witness ==
  \E id \in Requests :
    /\ api.req[id].phase = "done"
    /\ api.req[id].op = "getMessages"
    /\ api.req[id].page = 2
    /\ api.req[id].limit = 20
    /\ api.req[id].rejection # NoValue
    /\ api.req[id].rejection.isTimeoutError
    /\ api.req[id].dispatches = MAX_RETRIES + 1
    /\ api.req[id].result.kind = "resolved"

\* C17: whenever the request behind sendMessage, deleteConversation or
\* markAsRead has failed for good, whatever the failure, the call rejects with
\* the failure; it resolves only with the data of a response.
C17_WritesPropagate ==
  \A id \in Requests :
    LET r == api.req[id]
    IN  (r.phase = "done" /\ r.op \in Writes) =>
          IF r.rejection # NoValue
          THEN /\ r.result.kind = "rejected"
               /\ r.result.error = r.rejection
          ELSE r.result = [kind |-> "resolved", value |-> "response.data"]

\* sendMessage has been rejected after the retries of a request that got no
\* response
C17_Witness ==
  \E id \in Requests :
    /\ api.req[id].op = "sendMessage"
    /\ api.req[id].result.kind = "rejected"
    /\ api.req[id].rejection.isNetworkError
    /\ api.req[id].retryCount = MAX_RETRIES

\* the requests whose call of ensureBackendAwake has a performWakeUp running
Probing == {id \in Requests : api.req[id].probe.phase # "none"}

\* C18: however the requests interleave, at most one performWakeUp is
\* running, and it makes at most MAX_PROBES attempts; isWakingUp is true
\* exactly while wakeUpPromise is set, and both are set exactly while that
\* performWakeUp is running, so neither outlives it.
C18_SingleProbe ==
  /\ Cardinality(Probing) <= 1
  /\ \A id \in Probing : api.req[id].probe.attempt \in 1..MAX_PROBES
  /\ api.isWakingUp <=> api.wakeUpPromise # 0
  /\ api.wakeUpPromise # 0 <=> Probing # {}
  /\ api.wakeUpPromise # 0 => Probing = {api.wakeUpPromise}

\* a probe is at its last attempt while a second request to a wake-sensitive
\* endpoint has been issued
C18_Witness ==
  \E id \in Requests, other \in Requests :
    /\ id # other
    /\ api.req[id].probe = [attempt |-> MAX_PROBES, phase |-> "fetch"]
    /\ api.isWakingUp
    /\ api.req[other].op # "none"
    /\ WakeSensitive(api.req[other].op)
    /\ api.req[other].phase # "done"

\* C19: a request to a wake-sensitive endpoint that enters the request
\* interceptor while a performWakeUp is running is not dispatched in that
\* step: it waits for the promise of that performWakeUp.
C19_WaitsForProbe ==
  [][ \A id \in Requests :
        (/\ api.isWakingUp
         /\ api.req[id].phase \in {"idle", "retryWait"}
         /\ api'.req[id].phase \notin {"idle", "retryWait"}
         /\ WakeSensitive(api'.req[id].op))
        => /\ api'.req[id].phase = "awaitProbe"
           /\ api'.req[id].awaits = api.wakeUpPromise
           /\ api'.req[id].dispatches = api.req[id].dispatches ]_vars

\* a request to a wake-sensitive endpoint is at the backend while the
\* performWakeUp that was running when it was issued is at its first fetch:
\* the request that started it was issued earlier and has not been dispatched
C19_Witness ==
  \E id \in Requests, other \in Requests :
    /\ id < other
    /\ api.req[id].probe = [attempt |-> 1, phase |-> "fetch"]
    /\ api.req[id].dispatches = 0
    /\ api.req[other].op # "none"
    /\ WakeSensitive(api.req[other].op)
    /\ api.req[other].phase = "inflight"
    /\ api.req[other].dispatches = 1

\* the fields of the error value that transformError builds
NormalizedFields ==
  {"message", "status", "statusText", "isNetworkError", "isTimeoutError",
   "isServerError", "originalError"}

C21_ProbesUntilBound ==
  [][ SleepDone => /\ svc'.fetching = svc.fetching + 1
                   /\ svc'.socket = svc.socket ]_vars

\* the first probe of the first connect() has failed and its pause is running,
\* with isWakingUp still set
C21_Witness ==
  /\ svc.sleeping = 1
  /\ svc.wakeUpAttempts = 1
  /\ svc.isWakingUp
  /\ svc.connectionState = "connecting"
  /\ hist.created = 0

\* C22: neither wake-up routine holds back what it precedes.  In the step in
\* which an ensureBackendAwake of the socket service finishes, after a probe
\* that succeeded, after the last one that failed or after its pause, connect()
\* opens a transport; a connect() that finds a probe running opens one at
\* once.  In the step in which performWakeUp returns, with a probe that
\* succeeded or with all of them failed, the request that waited is
\* dispatched.  Neither routine makes more than its bounded number of probes.
C22_ProbeIsNotAGate ==
  /\ [](svc.wakeUpAttempts <= MAX_WAKE_UP_ATTEMPTS)
  /\ [][ /\ svc'.fetching + svc'.sleeping < svc.fetching + svc.sleeping
            => svc'.socket = "opening"
         /\ (CallConnect /\ svc.isWakingUp /\ svc.socket # "connected"
               /\ svc.connectionState # "connecting")
            => svc'.socket = "opening"
         /\ \A id \in Requests :
              (api.req[id].probe.phase # "none" /\ api'.req[id].probe.phase = "none")
              => /\ api'.req[id].phase = "inflight"
                 /\ api'.req[id].dispatches = api.req[id].dispatches + 1
                 /\ api.req[id].probe.attempt <= MAX_PROBES ]_vars

\* the first transport has been opened though the health fetch failed, and
\* a request is at the backend though its performWakeUp gave up
C22_Witness ==
  /\ svc.socket = "opening"
  /\ hist.created = 1
  /\ hist.lastProbe = "failed"
  /\ \E id \in Requests :
       /\ api.req[id].phase = "inflight"
       /\ api.req[id].dispatches = 1
       /\ api.req[id].woken = "gaveUp"

\* the events sent by the effects out, in order
RECURSIVE Sends(_)
Sends(out) ==
  IF out = <<>> THEN <<>>
  ELSE IF Head(out).e = "send" THEN <<Head(out).n>> \o Sends(Tail(out))
  ELSE Sends(Tail(out))

\* the place in out of the first effect of a kind
Place(out, kind) == CHOOSE i \in 1..Len(out) : out[i].e = kind /\ \A j \in 1..(i - 1) : out[j].e # kind

\* C23: when the transport reports "connect", the handler sends the queued
\* events in the order of the queue, which is the order in which they were
\* enqueued; it sends all of them after it has set the state to 'connected'
\* and before it notifies the subscribers of connection_status, so that the
\* event a subscriber emits in reaction is sent after them.
C23_DrainOrder ==
  [][ TransportConnects =>
        LET out == OnConnect(svc).out
            connected == Place(out, "success")
            notified == Place(out, "status")
        IN  /\ connected < notified
            /\ out[notified].t = "connected"
            /\ svc'.connectionState = "connected"
            /\ Sends(SubSeq(out, 1, connected)) = <<>>
            /\ Sends(SubSeq(out, connected + 1, notified - 1)) = Ids(svc.eventQueue)
            /\ Sends(SubSeq(out, notified + 1, Len(out))) =
                 IF svc.reactor > 0 THEN <<Reaction>> ELSE <<>>
            /\ \A i, j \in 1..Len(svc.eventQueue) :
                 i < j => svc.eventQueue[i].id < svc.eventQueue[j].id
            /\ hist'.sent = hist.sent \o Ids(svc.eventQueue)
                              \o (IF svc.reactor > 0 THEN <<Reaction>> ELSE <<>>)
            /\ svc'.eventQueue = <<>> ]_vars

\* two queued events have been sent in their order, and after them the event
\* of the subscriber
C23_Witness ==
  /\ svc.socket = "connected"
  /\ Len(hist.sent) >= 3
  /\ SubSeq(hist.sent, Len(hist.sent) - 2, Len(hist.sent)) \in
       {<<1, 2, Reaction>>, <<2, 3, Reaction>>}

\* C24: when the transport reports a disconnect, a timer that calls connect()
\* is set exactly when the reason is transport close, transport error, ping
\* timeout, server shutting down or io server disconnect and reconnectAttempts
\* is below MAX_RECONNECT_ATTEMPTS; the disconnect that the manager's own
\* disconnect() or cleanup() causes sets none.
C24_ReconnectOnlyWhenAllowed ==
  [][ /\ \A reason \in ServerReasons :
           TransportDisconnects(reason) =>
             (svc'.strayTimers = svc.strayTimers + 1
                <=> /\ reason \in {"transport close", "transport error", "ping timeout",
                                   "server shutting down", "io server disconnect"}
                    /\ svc.reconnectAttempts < MAX_RECONNECT_ATTEMPTS)
      /\ (CallDisconnect \/ CallCleanup) => svc'.strayTimers <= svc.strayTimers ]_vars

\* the manager's own teardown of a connected transport has left a timer that
\* calls connect(): the last notification is the "disconnected" of that
\* teardown and no transport is left
C24_Witness ==
  /\ svc.socket = "none"
  /\ hist.status = "disconnected"
  /\ hist.created = 1
  /\ svc.strayTimers = 1
  /\ ~svc.reconnectTimeout

\* emit() of event id has queued it: nothing is sent, the entry with the time
\* of the call is the last of the queue, and what was there is before it,
\* less the oldest if the queue was full
Queued(id) ==
  /\ hist'.sent = hist.sent
  /\ svc'.eventQueue =
       Append(IF Len(svc.eventQueue) >= QueueCapacity
              THEN Tail(svc.eventQueue)
              ELSE svc.eventQueue,
              [id |-> id, timestamp |-> now])

\* C25: emit() on a connected transport hands the event to it, leaves the
\* queue as it is and returns true, unless the transport's emit throws: then
\* it returns false and the event is neither sent nor queued.  Without a
\* connected transport it sends nothing, appends exactly one entry with the
\* time of the call to the queue, after dropping the oldest from a full one,
\* and returns false.
C25_EmitSendsOrQueues ==
  [][ CallEmit =>
        IF svc.socket = "connected"
        THEN /\ svc'.eventQueue = svc.eventQueue
             /\ IF hist.nextId \in svc.reserved
                THEN hist'.sent = hist.sent /\ hist'.returned = "false"
                ELSE hist'.sent = Append(hist.sent, hist.nextId) /\ hist'.returned = "true"
        ELSE Queued(hist.nextId) /\ hist'.returned = "false" ]_vars

\* C25 as stated: on a connected transport the event is always handed over
\* and true returned.
C25_EmitAlwaysSendsWhenConnected ==
  [][ CallEmit =>
        IF svc.socket = "connected"
        THEN /\ svc'.eventQueue = svc.eventQueue
             /\ hist'.sent = Append(hist.sent, hist.nextId)
             /\ hist'.returned = "true"
        ELSE Queued(hist.nextId) /\ hist'.returned = "false" ]_vars

\* on a connected transport, emit() of the refused event has returned false
\* after an emit() that was sent; nothing is queued
C25_Witness ==
  /\ svc.socket = "connected"
  /\ hist.nextId = 3
  /\ hist.sent = <<1>>
  /\ hist.returned = "false"
  /\ svc.eventQueue = <<>>

\* a connection attempt fails: the transport reports an error, or the
\* connection timeout fires on an attempt still marked as connecting
AttemptFails ==
  \/ TransportConnectError
  \/ ConnectionTimeoutFires /\ svc.connectionState = "connecting"

\* C26: reconnectAttempts is always between 0 and MAX_RECONNECT_ATTEMPTS; it
\* is 0 when the handler of a successful connect has run; and a failed
\* attempt adds exactly one to it when it schedules a retry, which it does
\* while the counter is below the maximum, and leaves it alone otherwise.
C26_AttemptCounter ==
  /\ [](svc.reconnectAttempts \in 0..MAX_RECONNECT_ATTEMPTS)
  /\ [][ /\ TransportConnects => svc'.reconnectAttempts = 0
         /\ AttemptFails =>
              IF svc.reconnectAttempts < MAX_RECONNECT_ATTEMPTS
              THEN /\ svc'.reconnectAttempts = svc.reconnectAttempts + 1
                   /\ svc'.reconnectTimeout
              ELSE /\ svc'.reconnectAttempts = svc.reconnectAttempts
                   /\ svc'.reconnectTimeout = svc.reconnectTimeout ]_vars

\* an attempt has failed and its retry is scheduled, the counter being 1
C26_Witness ==
  /\ svc.connectionState = "error"
  /\ svc.reconnectAttempts = 1
  /\ svc.reconnectTimeout
  /\ svc.socket = "closed"

\* C27: whenever the manager holds a transport, the callbacks attached to it
\* are the entries of the Listener Registry, the same callbacks as many times
\* and in the same order; each callback is there once for every on() that no
\* off() or cleanup() has undone, so that one whose registrations were all
\* removed is attached to no transport, then or after a reconnect.
C27_RegistryAndTransportAgree ==
  /\ svc.socket # "none" => svc.attached = svc.eventListeners
  /\ svc.socket = "none" => svc.attached = <<>>
  /\ \A cb \in Callbacks :
       /\ Occurrences(svc.eventListeners, cb) = hist.registered[cb]
       /\ svc.socket # "none" => Occurrences(svc.attached, cb) = hist.registered[cb]

\* a callback registered twice is attached twice to the second transport, and
\* the other callback is not attached
C27_Witness ==
  /\ svc.socket = "connected"
  /\ hist.created = 2
  /\ svc.attached = <<"cbB", "cbB">>
  /\ hist.registered["cbA"] = 0

\* C28: the four counters of the statistics never decrease in a step other
\* than cleanup(), which leaves them all at 0; a "connect" event adds one to
\* totalConnections, a "disconnect" event of the transport one to
\* totalDisconnections, and a connection error one to totalErrors.
C28_StatisticsMonotone ==
  [][ /\ CallCleanup => \A c \in Counters : hist'.stats[c] = 0
      /\ ~CallCleanup => \A c \in Counters : hist'.stats[c] >= hist.stats[c]
      /\ TransportConnects =>
           hist'.stats["totalConnections"] = hist.stats["totalConnections"] + 1
      /\ (\E reason \in ServerReasons : TransportDisconnects(reason)) =>
           hist'.stats["totalDisconnections"] = hist.stats["totalDisconnections"] + 1
      /\ TransportConnectError =>
           hist'.stats["totalErrors"] = hist.stats["totalErrors"] + 1
    ]_vars

\* every counter has counted, and the transport is connected again
C28_Witness ==
  /\ svc.socket = "connected"
  /\ hist.stats["totalConnections"] = 2
  /\ hist.stats["totalDisconnections"] = 1
  /\ hist.stats["totalErrors"] = 1
  /\ hist.stats["totalReconnects"] = 1

\* C29: in the normalized error isServerError is true exactly for a response
\* with a status from 500 to 599, isTimeoutError exactly for a request that
\* exceeded its deadline, and isNetworkError exactly when there was no
\* response.
C29_FlagsFollowTaxonomy ==
  hist.transformed =>
    /\ hist.normalized.isServerError <=> hist.error.status \in ServerErrors
    /\ hist.normalized.isTimeoutError <=> hist.error.code = "ECONNABORTED"
    /\ hist.normalized.isNetworkError <=> hist.error.status = Null

\* the normalized error of a 404 response carries the server-error flag
C29_Witness ==
  /\ hist.transformed
  /\ hist.error.status = 404
  /\ hist.normalized.isServerError
  /\ ~hist.normalized.isNetworkError
  /\ ~hist.normalized.isTimeoutError

\* C30: the k-th retry of a request, k from 1 to MAX_RETRIES, waits
\* min(RETRY_DELAY * 2^k, 10000) ms, not less than the retry before it and
\* never more than 10000; its timeout is min(1.5 times the timeout of the
\* attempt that failed, LONG_TIMEOUT), so that along the retries of a request
\* the timeout never decreases and never exceeds 60000 ms.
C30_RetryDelaysAndTimeouts ==
  /\ [](\A id \in Requests : api.req[id].timeout <= 60000 /\ api.req[id].delay <= 10000)
  /\ [][ \A id \in Requests :
           LET r == api.req[id]
               retry == api'.req[id]
           IN  /\ (r.phase = "inflight" /\ retry.phase = "retryWait") =>
                    /\ retry.retryCount = r.retryCount + 1
                    /\ retry.retryCount \in 1..MAX_RETRIES
                    /\ retry.delay = Min(RETRY_DELAY * Pow(2, retry.retryCount), 10000)
                    /\ retry.delay >= r.delay
                    /\ 2 * retry.timeout = Min(3 * r.timeout, 2 * LONG_TIMEOUT)
                    /\ retry.timeout >= r.timeout
               /\ (r.phase = "retryWait" /\ retry.phase # "retryWait") =>
                    /\ retry.timeout = r.timeout
                    /\ retry.retryCount = r.retryCount
       ]_vars

\* the third retry of a health check waits 8000 ms and will have 50625 ms
C30_Witness ==
  \E id \in Requests :
    /\ api.req[id].op = "getHealthStatus"
    /\ api.req[id].phase = "retryWait"
    /\ api.req[id].retryCount = MAX_RETRIES
    /\ api.req[id].delay = 8000
    /\ api.req[id].timeout = 50625

\* C31: a sendMessage whose dispatch ends with no response is dispatched
\* again while retries are left, so that one call makes up to 1 + MAX_RETRIES
\* dispatches, and every one of them is the same POST: the caller's message
\* encoded once.
C31_WritesRetriedWithTheSamePost ==
  \A id \in Requests :
    api.req[id].op = "sendMessage" /\ api.req[id].phase \in {"inflight", "retryWait"} =>
      /\ api.req[id].dispatches <= 1 + MAX_RETRIES
      /\ api.req[id].phase = "inflight" => api.req[id].dispatches = 1 + api.req[id].retryCount
      /\ api.req[id].data = 1

\* the retries of a sendMessage are dispatched, 1 + MAX_RETRIES dispatches in
\* all, without a limit of their own for writes
C31_WritesAreRetried ==
  /\ [](\A id \in Requests : api.req[id].dispatches <= 1 + MAX_RETRIES)
  /\ [][ \A id \in Requests :
           (/\ api.req[id].op = "sendMessage"
            /\ api.req[id].phase = "inflight"
            /\ api.req[id].retryCount < MAX_RETRIES
            /\ Respond(id, NoResponse)) => api'.req[id].phase = "retryWait"
       ]_vars

\* the fourth dispatch of a sendMessage is in flight, its body encoded four
\* times over
C31_Witness ==
  \E id \in Requests :
    /\ api.req[id].op = "sendMessage"
    /\ api.req[id].phase = "inflight"
    /\ api.req[id].dispatches = 1 + MAX_RETRIES
    /\ api.req[id].data = 1 + MAX_RETRIES

\* C32: under every interleaving of connect(), disconnect(), reconnect(),
\* cleanup() and the timers that call connect(), at most one health fetch of
\* ensureBackendAwake is in flight.
C32_OneProbeInFlight == svc.fetching <= 1

\* two health fetches are in flight, the flag of the wake-up being set by the
\* second
C32_Witness ==
  /\ svc.fetching = 2
  /\ svc.isWakingUp
  /\ svc.socket = "none"

\* C33: when a callback of a connection_status notification throws, the
\* exception is caught: the callbacks registered after it are invoked all the
\* same, every registered callback once and in the order of registration, and
\* the transport's handler or the caller's disconnect() ends in the state it
\* ends in when no callback throws.
C33_ListenerFailuresContained ==
  [][ LET calm == [svc EXCEPT !.callbackDoes = [cb \in Callbacks |-> "returns"]]
          Ended(t) == [t EXCEPT !.out = <<>>, !.callbackDoes = svc.callbackDoes]
      IN  /\ TransportConnects =>
               /\ hist'.invoked = svc.eventListeners
               /\ hist'.caught = {cb \in Range(svc.eventListeners) : svc.callbackDoes[cb] = "throws"}
               /\ svc' = Ended(OnConnect(calm))
          /\ \A reason \in ServerReasons :
               TransportDisconnects(reason) =>
                 /\ hist'.invoked = svc.eventListeners
                 /\ hist'.caught = {cb \in Range(svc.eventListeners) : svc.callbackDoes[cb] = "throws"}
                 /\ svc' = Ended(OnDisconnect([calm EXCEPT !.socket = "closed"], reason))
          /\ CallDisconnect => svc' = Ended(Disconnect(Manual(calm)))
    ]_vars

\* the first of two callbacks has thrown at 'connected', and the second was
\* invoked after it
C33_Witness ==
  /\ svc.socket = "connected"
  /\ svc.eventListeners = <<"cbA", "cbB">>
  /\ svc.callbackDoes["cbA"] = "throws"
  /\ hist.invoked = <<"cbA", "cbB">>
  /\ hist.caught = {"cbA"}

\* C38: when a connection_status notification is dispatched, every callback
\* that was registered at the start of the dispatch and is not removed during
\* it is invoked once for each of its registrations, also when a callback
\* calls off() for itself or for another callback during the dispatch.
C38_RemovalLosesNoNotification ==
  [][ (TransportConnects \/ \E reason \in ServerReasons : TransportDisconnects(reason)) =>
        \A cb \in Callbacks :
          Occurrences(svc'.eventListeners, cb) = Occurrences(svc.eventListeners, cb) =>
            Occurrences(hist'.invoked, cb) = Occurrences(svc.eventListeners, cb)
    ]_vars

\* the first callback has removed itself at 'connected' and the second, still
\* registered, was not invoked
C38_Witness ==
  /\ svc.socket = "connected"
  /\ svc.callbackDoes["cbA"] = "removesSelf"
  /\ hist.invoked = <<"cbA">>
  /\ svc.eventListeners = <<"cbB">>
  /\ hist.registered["cbB"] = 1

\* C34: the callback of a ping() call is invoked once: with an error if the
\* socket is not connected, with the result if the acknowledgment arrives,
\* with a timeout error if it does not; never twice, and never with a result
\* and a timeout error both.
C34_PingCallbackOnce ==
  /\ Len(hist.callbacks) <= 1
  /\ svc.ping.variant # 0 /\ ~svc.ping.timer => Len(hist.callbacks) = 1

\* C34 for the ping of the second variant alone
C34_GuardedPingCallbackOnce ==
  /\ Len(hist.callbacks) <= 1
  /\ svc.ping.variant # 0 /\ ~svc.ping.timer => Len(hist.callbacks) = 1
  /\ svc.ping.variant # 0 /\ svc.ping.timer => hist.callbacks = <<>>

\* the callback of a ping was invoked with the result and then with the
\* timeout error
C34_Witness ==
  /\ svc.ping.variant = 3
  /\ hist.callbacks = <<"result", "timeout">>

\* C35: a connect() call that resumes from its wake-up probe while the
\* transport is connected leaves it connected: it neither closes it nor opens
\* a replacement.
C35_ConnectKeepsLiveTransport ==
  [][ ((\E ok \in BOOLEAN : FetchDone(ok)) \/ SleepDone) /\ svc.socket = "connected" =>
        /\ svc'.socket = "connected"
        /\ svc'.connected
        /\ hist'.status = hist.status
    ]_vars

\* a second connect() call awaits its health fetch while the transport that
\* the first call opened is connected
C35_Witness ==
  /\ svc.socket = "connected"
  /\ svc.connected
  /\ svc.fetching = 1
  /\ hist.created = 1

\* C36: at most one reconnect timer is pending, and a pending reconnect
\* timer is the one this.reconnectTimeout refers to: no timer that will call
\* connect() is pending without a field that refers to it.
C36_OneTrackedReconnect == svc.strayTimers = 0

\* a reconnect timer that no field refers to is pending after a disconnect
\* the server caused
C36_Witness ==
  /\ svc.strayTimers = 1
  /\ ~svc.reconnectTimeout
  /\ svc.socket = "closed"
  /\ hist.status = "disconnected"

\* C37: the willReconnect of a 'disconnected' notification is true exactly
\* when the handler of that disconnect has scheduled a reconnect: for a
\* disconnect the transport reports by itself, and for the disconnect that the
\* manager's own disconnect() causes on a connected transport.
C37_WillReconnectAccurate ==
  [][ /\ \A reason \in ServerReasons :
           TransportDisconnects(reason) =>
             /\ hist'.willReconnect \in {"true", "false"}
             /\ hist'.willReconnect = "true" <=> svc'.strayTimers = svc.strayTimers + 1
             /\ hist'.willReconnect = "false" <=> svc'.strayTimers = svc.strayTimers
             /\ hist'.willReconnect = "true" <=>
                  ShouldReconnect(reason) /\ svc.reconnectAttempts < MAX_RECONNECT_ATTEMPTS
      /\ (CallDisconnect \/ CallCleanup) /\ svc.socket = "connected" =>
           (hist'.willReconnect = "true" <=> svc'.strayTimers = svc.strayTimers + 1)
    ]_vars

\* a disconnect was announced with willReconnect true and its reconnect timer
\* is pending
C37_Witness ==
  /\ hist.willReconnect = "true"
  /\ hist.status = "disconnected"
  /\ svc.socket = "closed"
  /\ svc.strayTimers = 1

C37_WitnessNoReconnect ==
  /\ hist.willReconnect = "false"
  /\ hist.status = "disconnected"
  /\ svc.socket = "closed"
  /\ svc.strayTimers = 0

\* C39: a request goes to the backend at most 1 + MAX_RETRIES times, its
\* retry counter never exceeds MAX_RETRIES, and, every dispatch, probe and
\* pause coming to its end, the call returns: it resolves or rejects.
C39_RequestsTerminate ==
  /\ [](\A id \in Requests :
          /\ api.req[id].dispatches <= 1 + MAX_RETRIES
          /\ api.req[id].retryCount <= MAX_RETRIES
          /\ api.req[id].phase = "done" => api.req[id].result.kind \in {"resolved", "rejected"})
  /\ \A id \in Requests :
       (api.req[id].phase \notin {"idle", "done"}) ~> (api.req[id].phase = "done")

\* a call has returned with a rejection after 1 + MAX_RETRIES dispatches that
\* had no response
C39_Witness ==
  \E id \in Requests :
    /\ api.req[id].phase = "done"
    /\ api.req[id].op = "sendMessage"
    /\ api.req[id].dispatches = 1 + MAX_RETRIES
    /\ api.req[id].retryCount = MAX_RETRIES
    /\ api.req[id].result.kind = "rejected"
    /\ api.req[id].rejection.isNetworkError

\* C40: a refresh of the conversation list does not override the user's
\* selection.  When a loadConversations() call completes with a list, a
\* conversation that is selected at that time and present in the list stays
\* selected, and the first conversation of the list becomes the selection
\* only if nothing is selected at that time.
C40_RefreshKeepsSelection ==
  [][\A i \in 1..MaxLoads, conversationsData \in Loaded :
       LoadResolves(i, conversationsData) =>
         /\ app.selected \in Range(conversationsData)
              => app'.selected = app.selected
         /\ app.selected # "none" /\ app'.selected # app.selected
              => app'.selected = "none"]_vars

\* the user chose c2, which the list holds, and the page shows c1, the first
\* of the list, selected by a load that was called before the choice
C40_Witness ==
  /\ hist.chosen = "c2"
  /\ app.conversations = <<"c1", "c2">>
  /\ app.selected = "c1"

\* the user chose c2, which the list holds, and the page shows the list with
\* nothing selected, deselected by a load that was called while c1 was chosen
C40_WitnessDeselected ==
  /\ hist.chosen = "c2"
  /\ "c2" \in Range(app.conversations)
  /\ app.selected = "none"

\* C10: the connection timeout firing on an attempt that has not resolved
\* makes it a failed attempt: state "error", and a retry scheduled or "failed"
\* notified.
C10_TimeoutFailsTheAttempt ==
  [][ (ConnectionTimeoutFires /\ svc.socket = "opening")
        => /\ svc'.connectionState = "error"
           /\ (svc'.reconnectTimeout \/ hist'.status = "failed") ]_vars

\* the timeout of an attempt is pending and its transport has not resolved
C10_Witness ==
  /\ svc.connectionTimeout
  /\ svc.socket = "opening"

====
